---- MODULE Spec2Model ----
(***************************************************************************)
(* Model of honest-tax-core: the currency type (usd_amount.rs), the 2025   *)
(* rules table (rules/y2025.rs), the bracket / standard-deduction /        *)
(* phase-out algorithms of the TaxRules trait (traits/rules.rs), the rules *)
(* loader (rules/loader.rs), the validation accumulator (error.rs) and     *)
(* W-2 validation (inputs/w2.rs).                                          *)
(*                                                                         *)
(* Money (= UsdAmount) wraps a rust_decimal::Decimal.  Every amount the    *)
(* modelled code produces is a multiple of 10^-4 dollar: inputs are cent   *)
(* amounts, rates have two decimals and a product of the two has four.     *)
(* TLC integers are 32 bit, so an amount is a record                       *)
(*     [whole |-> floor(dollars), frac |-> ten-thousandths in 0..9999]     *)
(* whose value is whole + frac / 10000.  The representation is canonical,  *)
(* so record equality is Decimal's value equality.                         *)
(***************************************************************************)
EXTENDS Integers, Sequences, FiniteSets, TLC

VARIABLES
    rules,        \* the Rules2025 object the computation reads
    status,       \* FilingStatus of the return being computed
    pending,      \* taxable incomes still to be passed to calculate_tax
    results,      \* [income, tax] of every calculate_tax call made so far
    table,        \* Some(slice returned by brackets(status)) or None
    flags,        \* taxpayer_65_or_older, taxpayer_blind, spouse_65_or_older, spouse_blind
    agi,          \* adjusted gross income of the return
    phase_out,    \* the PhaseOut configuration asked for a reduction
    deduction,    \* result of standard_deduction, or None
    reduced,      \* result of PhaseOut::reduction, or None
    year,         \* the tax year asked of the loader
    loaded,       \* <<result of RulesLoader::load(year)>>, or <<>> before the call
    errors,       \* the Vec<ValidationError> of a ValidationErrors accumulator
    error_adds,   \* history: how many Error-severity entries were added to it
    converted,    \* <<result of into_result()>>, or <<>> while the accumulator lives
    w2,           \* the W-2 under validation
    validated,    \* <<outcome of w2.validate()>>, or <<>> before the call
    dependent,    \* the Dependent whose credit eligibility is asked
    eligibility,  \* [ctc, odc]: results of qualifies_for_ctc / _odc, <<>> before the call
    taxpayer,     \* the TaxpayerInfo whose age is asked
    tax_year,     \* the TaxYear the age is asked for
    age,          \* [at_year_end, is_65]: results of the two age methods, <<>> before
    form,         \* the Form1040 being filled in
    calculated,   \* [last, calls]: the calculate_* method called last on form
                  \* ("" before any) and how many calls were made
    operands,     \* [a, b, rate, dollars]: the cents, the rate (in hundredths) and
                  \* the dollars the currency operations are given
    computed,     \* [ops, values, outs]: the operations applied in turn to one
                  \* amount, the amount after each, and what as_cents returned
    forms,        \* the collection of input forms (Vec<Box<dyn InputForm>>)
    totals,       \* results of the InputFormCollection aggregates called so far
    computations, \* the return computations that share the rules object: for
                  \* each its call, how far the call has got and what it returned
    reads         \* [op, arg, out]: the read-only call made last on the object
                  \* in its present state, and what it returned

taxVars == <<pending, results, table>>

dedVars == <<flags, agi, phase_out, deduction, reduced>>

loaderVars == <<year, loaded>>

valVars == <<errors, error_adds, converted>>

w2Vars == <<w2, validated>>

\* the data of a return: a dependent, the taxpayer, the Form 1040, the
\* amounts of the currency type and the input forms
returnVars ==
    <<dependent, eligibility, taxpayer, tax_year, age, form, calculated,
      operands, computed, forms, totals>>

vars ==
    <<rules, status, taxVars, dedVars, loaderVars, valVars, w2Vars, returnVars,
      computations, reads>>

(***************************************************************************)
(* usd_amount.rs: the currency type                                        *)
(***************************************************************************)

\* ten-thousandths per dollar: cents (10^2) times the two decimals of a rate
FracScale == 100 * 100

\* carries frac into whole so that 0 <= frac < FracScale (floor semantics)
Normalize(w, f) == [whole |-> w + (f \div FracScale), frac |-> f % FracScale]

ZERO == [whole |-> 0, frac |-> 0]

from_cents(cents) == Normalize(cents \div 100, (cents % 100) * 100)

from_dollars(dollars) == [whole |-> dollars, frac |-> 0]

\* (self.0 * 100).trunc(): truncation is toward zero
as_cents(m) ==
    LET floorCents == m.whole * 100 + (m.frac \div 100)
    IN  IF m.whole < 0 /\ m.frac % 100 # 0 THEN floorCents + 1 ELSE floorCents

is_zero(m) == m.whole = 0 /\ m.frac = 0

is_negative(m) == m.whole < 0

is_positive(m) == m.whole > 0 \/ (m.whole = 0 /\ m.frac > 0)

\* derived PartialOrd / Ord on the wrapped Decimal
Money_lt(a, b) == a.whole < b.whole \/ (a.whole = b.whole /\ a.frac < b.frac)

Money_le(a, b) == a = b \/ Money_lt(a, b)

Money_min(a, b) == IF Money_le(a, b) THEN a ELSE b

Money_add(a, b) == Normalize(a.whole + b.whole, a.frac + b.frac)

\* faulty variant of Sub: a difference below zero is floored at zero
Money_sub_floored(a, b) ==
    IF Money_lt(b, a) THEN Normalize(a.whole - b.whole, a.frac - b.frac)
    ELSE Normalize(0, 0)

Money_sub(a, b) == Normalize(a.whole - b.whole, a.frac - b.frac)

\* Mul<Money> for Money: the product of the two decimals
Money_mul(a, b) ==
    Normalize(a.whole * b.whole,
              a.whole * b.frac + a.frac * b.whole + ((a.frac * b.frac) \div FracScale))

\* faulty variant of multiply_rate: the product rounded to whole cents
multiply_rate_rounded(m, rate) ==
    LET c == m.whole * rate + ((m.frac * rate + (FracScale \div 2)) \div FracScale)
    IN  from_cents(c)

\* self.0 * rate, the rate given in hundredths (dec!(0.10) is 10)
multiply_rate(m, rate) ==
    LET c == m.whole * rate
    IN  Normalize(c \div 100, (c % 100) * 100 + ((m.frac * rate) \div 100))

\* faulty variant of saturating_sub: the test is self > 0, not self > other
saturating_sub_positive_self(a, b) == IF is_positive(a) THEN Money_sub(a, b) ELSE ZERO

saturating_sub(a, b) == IF Money_lt(b, a) THEN Money_sub(a, b) ELSE ZERO

\* faulty variant of round_to_dollar: a midpoint always rounds up, also
\* below zero
round_to_dollar_half_up(m) ==
    IF m.frac >= FracScale \div 2 THEN from_dollars(m.whole + 1)
    ELSE from_dollars(m.whole)

\* round_dp_with_strategy(0, MidpointAwayFromZero): whole is the floor, so
\* below zero a midpoint goes down to it and above zero up from it
round_to_dollar(m) ==
    IF is_negative(m)
    THEN IF m.frac > FracScale \div 2 THEN from_dollars(m.whole + 1)
         ELSE from_dollars(m.whole)
    ELSE IF m.frac >= FracScale \div 2 THEN from_dollars(m.whole + 1)
         ELSE from_dollars(m.whole)

\* self.0.trunc(): toward zero
trunc_to_dollar(m) ==
    IF is_negative(m) /\ m.frac # 0 THEN from_dollars(m.whole + 1)
    ELSE from_dollars(m.whole)

\* round_dp_with_strategy(2, MidpointAwayFromZero)
round_to_cents(m) ==
    LET cents == m.frac \div 100
        rest == m.frac % 100
    IN  IF is_negative(m)
        THEN IF rest > 50 THEN Normalize(m.whole, (cents + 1) * 100)
             ELSE Normalize(m.whole, cents * 100)
        ELSE IF rest >= 50 THEN Normalize(m.whole, (cents + 1) * 100)
             ELSE Normalize(m.whole, cents * 100)

\* impl Sum: iter.fold(ZERO, |acc, x| acc + x)
RECURSIVE Money_sum(_)
Money_sum(amounts) ==
    IF amounts = <<>> THEN ZERO
    ELSE Money_add(Money_sum(SubSeq(amounts, 1, Len(amounts) - 1)),
                   amounts[Len(amounts)])

(***************************************************************************)
(* types.rs: FilingStatus                                                  *)
(***************************************************************************)

FilingStatus ==
    {"Single", "MarriedFilingJointly", "MarriedFilingSeparately",
     "HeadOfHousehold", "QualifyingSurvivingSpouse"}

(***************************************************************************)
(* traits/rules.rs: TaxBracket; rules/y2025.rs: the 2025 tables            *)
(***************************************************************************)

None == [some |-> FALSE, v |-> ZERO]

Some(m) == [some |-> TRUE, v |-> m]

\* TaxBracket { rate, min, max }, bounds given in whole dollars
TaxBracket(rate, minDollars, maxOpt) ==
    [rate |-> rate, min |-> from_dollars(minDollars), max |-> maxOpt]

build_single_brackets ==
    << TaxBracket(10, 0, Some(from_dollars(11925))),
       TaxBracket(12, 11925, Some(from_dollars(48475))),
       TaxBracket(22, 48475, Some(from_dollars(103350))),
       TaxBracket(24, 103350, Some(from_dollars(197300))),
       TaxBracket(32, 197300, Some(from_dollars(250525))),
       TaxBracket(35, 250525, Some(from_dollars(626350))),
       TaxBracket(37, 626350, None) >>

build_mfj_brackets ==
    << TaxBracket(10, 0, Some(from_dollars(23850))),
       TaxBracket(12, 23850, Some(from_dollars(96950))),
       TaxBracket(22, 96950, Some(from_dollars(206700))),
       TaxBracket(24, 206700, Some(from_dollars(394600))),
       TaxBracket(32, 394600, Some(from_dollars(501050))),
       TaxBracket(35, 501050, Some(from_dollars(751600))),
       TaxBracket(37, 751600, None) >>

\* faulty variant of build_mfs_brackets: the 35% bracket starts at the MFJ-half
\* boundary 250,525 but the 32% bracket ends at 250,500 (a gap)
build_mfs_brackets_gap ==
    << TaxBracket(10, 0, Some(from_dollars(11925))),
       TaxBracket(12, 11925, Some(from_dollars(48475))),
       TaxBracket(22, 48475, Some(from_dollars(103350))),
       TaxBracket(24, 103350, Some(from_dollars(197300))),
       TaxBracket(32, 197300, Some(from_dollars(250500))),
       TaxBracket(35, 250525, Some(from_dollars(375800))),
       TaxBracket(37, 375800, None) >>

build_mfs_brackets ==
    << TaxBracket(10, 0, Some(from_dollars(11925))),
       TaxBracket(12, 11925, Some(from_dollars(48475))),
       TaxBracket(22, 48475, Some(from_dollars(103350))),
       TaxBracket(24, 103350, Some(from_dollars(197300))),
       TaxBracket(32, 197300, Some(from_dollars(250525))),
       TaxBracket(35, 250525, Some(from_dollars(375800))),
       TaxBracket(37, 375800, None) >>

build_hoh_brackets ==
    << TaxBracket(10, 0, Some(from_dollars(17000))),
       TaxBracket(12, 17000, Some(from_dollars(64850))),
       TaxBracket(22, 64850, Some(from_dollars(103350))),
       TaxBracket(24, 103350, Some(from_dollars(197300))),
       TaxBracket(32, 197300, Some(from_dollars(250500))),
       TaxBracket(35, 250500, Some(from_dollars(626350))),
       TaxBracket(37, 626350, None) >>

\* PhaseOut { single_threshold, joint_threshold, mfs_threshold, rate }
PhaseOut(singleDollars, jointDollars, mfsDollars, rate) ==
    [single_threshold |-> from_dollars(singleDollars),
     joint_threshold |-> from_dollars(jointDollars),
     mfs_threshold |-> from_dollars(mfsDollars),
     rate |-> rate]

\* Rules2025::new()
Rules2025_new ==
    [brackets_single |-> build_single_brackets,
     brackets_mfj |-> build_mfj_brackets,
     brackets_mfs |-> build_mfs_brackets,
     brackets_hoh |-> build_hoh_brackets,
     ctc_phase_out |-> PhaseOut(200000, 400000, 200000, 5)]

\* impl TaxRules for Rules2025: year()
Rules2025_year(r) == 2025

\* impl TaxRules for Rules2025: brackets(status)
brackets(r, s) ==
    CASE s = "Single" -> r.brackets_single
      [] s \in {"MarriedFilingJointly", "QualifyingSurvivingSpouse"} -> r.brackets_mfj
      [] s = "MarriedFilingSeparately" -> r.brackets_mfs
      [] s = "HeadOfHousehold" -> r.brackets_hoh

(***************************************************************************)
(* traits/rules.rs: TaxBracket::tax_for_income, TaxRules::calculate_tax    *)
(***************************************************************************)

tax_for_income(bracket, income) ==
    IF Money_lt(income, bracket.min) THEN ZERO
    ELSE LET taxable_in_bracket ==
                 IF bracket.max.some
                 THEN Money_sub(Money_min(income, bracket.max.v), bracket.min)
                 ELSE Money_sub(income, bracket.min)
         IN  IF is_negative(taxable_in_bracket) THEN ZERO
             ELSE multiply_rate(taxable_in_bracket, bracket.rate)

\* faulty variant of the loop body: "total_tax =" written for "total_tax +="
calculate_tax_body_overwrite(acc, bracket, taxable_income) ==
    LET bracket_income ==
            IF bracket.max.some
            THEN Money_sub(Money_min(taxable_income, bracket.max.v), acc.prev_max)
            ELSE Money_sub(taxable_income, acc.prev_max)
    IN  [total_tax |-> IF is_positive(bracket_income)
                       THEN multiply_rate(bracket_income, bracket.rate)
                       ELSE acc.total_tax,
         prev_max |-> IF bracket.max.some THEN bracket.max.v ELSE taxable_income]

\* faulty variant of the loop body: prev_max is never advanced
calculate_tax_body_stale_prev(acc, bracket, taxable_income) ==
    LET bracket_income ==
            IF bracket.max.some
            THEN Money_sub(Money_min(taxable_income, bracket.max.v), acc.prev_max)
            ELSE Money_sub(taxable_income, acc.prev_max)
    IN  [total_tax |-> IF is_positive(bracket_income)
                       THEN Money_add(acc.total_tax,
                                      multiply_rate(bracket_income, bracket.rate))
                       ELSE acc.total_tax,
         prev_max |-> acc.prev_max]

\* one pass of the for loop after the break test: acc holds the two locals
calculate_tax_body(acc, bracket, taxable_income) ==
    LET bracket_income ==
            IF bracket.max.some
            THEN Money_sub(Money_min(taxable_income, bracket.max.v), acc.prev_max)
            ELSE Money_sub(taxable_income, acc.prev_max)
    IN  [total_tax |-> IF is_positive(bracket_income)
                       THEN Money_add(acc.total_tax,
                                      multiply_rate(bracket_income, bracket.rate))
                       ELSE acc.total_tax,
         prev_max |-> IF bracket.max.some THEN bracket.max.v ELSE taxable_income]

RECURSIVE calculate_tax_loop(_, _, _, _)
\* the for loop from bracket i on; "taxable_income <= prev_max" breaks out
calculate_tax_loop(bs, i, acc, taxable_income) ==
    IF i > Len(bs) \/ Money_le(taxable_income, acc.prev_max)
    THEN acc.total_tax
    ELSE calculate_tax_loop(bs, i + 1,
                            calculate_tax_body(acc, bs[i], taxable_income),
                            taxable_income)

calculate_tax(r, s, taxable_income) ==
    calculate_tax_loop(brackets(r, s), 1,
                       [total_tax |-> ZERO, prev_max |-> ZERO], taxable_income)


(***************************************************************************)
(* traits/rules.rs: PhaseOut; rules/y2025.rs: standard-deduction amounts   *)
(***************************************************************************)

\* faulty variant of threshold_for: MarriedFilingSeparately grouped with joint
threshold_for_mfs_joint(po, s) ==
    CASE s \in {"Single", "HeadOfHousehold"} -> po.single_threshold
      [] s \in {"MarriedFilingJointly", "QualifyingSurvivingSpouse",
                "MarriedFilingSeparately"} -> po.joint_threshold

threshold_for(po, s) ==
    CASE s \in {"Single", "HeadOfHousehold"} -> po.single_threshold
      [] s \in {"MarriedFilingJointly", "QualifyingSurvivingSpouse"} -> po.joint_threshold
      [] s = "MarriedFilingSeparately" -> po.mfs_threshold

reduction(po, s, a) ==
    LET threshold == threshold_for(po, s)
    IN  IF Money_le(a, threshold) THEN ZERO
        ELSE multiply_rate(Money_sub(a, threshold), po.rate)

standard_deduction_base(r, s) ==
    CASE s \in {"Single", "MarriedFilingSeparately"} -> from_dollars(15750)
      [] s \in {"MarriedFilingJointly", "QualifyingSurvivingSpouse"} -> from_dollars(31500)
      [] s = "HeadOfHousehold" -> from_dollars(23625)

standard_deduction_age_65(r, s) ==
    CASE s \in {"Single", "HeadOfHousehold"} -> from_dollars(2000)
      [] s \in {"MarriedFilingJointly", "MarriedFilingSeparately",
                "QualifyingSurvivingSpouse"} -> from_dollars(1600)

standard_deduction_blind(r, s) == standard_deduction_age_65(r, s)

\* Rules2025::senior_bonus_deduction: Some(SeniorBonusDeduction { .. })
senior_bonus_deduction(r) ==
    [some |-> TRUE,
     amount_per_person |-> 6000,
     phase_out |-> PhaseOut(75000, 150000, 75000, 6)]

(***************************************************************************)
(* traits/rules.rs: TaxRules::standard_deduction                           *)
(***************************************************************************)

\* faulty variant of standard_deduction_additions: the spouse's increments are
\* added for every status
standard_deduction_additions_any_status(r, s, f) ==
    LET base == standard_deduction_base(r, s)
        d1 == IF f.taxpayer_65_or_older
              THEN Money_add(base, standard_deduction_age_65(r, s)) ELSE base
        d2 == IF f.taxpayer_blind
              THEN Money_add(d1, standard_deduction_blind(r, s)) ELSE d1
        d3 == IF f.spouse_65_or_older
              THEN Money_add(d2, standard_deduction_age_65(r, s)) ELSE d2
    IN  IF f.spouse_blind
        THEN Money_add(d3, standard_deduction_blind(r, s)) ELSE d3

\* the local "deduction" when the senior bonus block is reached
standard_deduction_additions(r, s, f) ==
    LET base == standard_deduction_base(r, s)
        d1 == IF f.taxpayer_65_or_older
              THEN Money_add(base, standard_deduction_age_65(r, s)) ELSE base
        d2 == IF f.taxpayer_blind
              THEN Money_add(d1, standard_deduction_blind(r, s)) ELSE d1
        d3 == IF s = "MarriedFilingJointly" /\ f.spouse_65_or_older
              THEN Money_add(d2, standard_deduction_age_65(r, s)) ELSE d2
    IN  IF s = "MarriedFilingJointly" /\ f.spouse_blind
        THEN Money_add(d3, standard_deduction_blind(r, s)) ELSE d3

\* faulty variant of senior_bonus_addition: plain subtraction for saturating_sub
senior_bonus_addition_unfloored(r, s, f, a) ==
    LET bonus == senior_bonus_deduction(r)
        senior_count ==
            (IF f.taxpayer_65_or_older THEN 1 ELSE 0)
            + (IF s = "MarriedFilingJointly" /\ f.spouse_65_or_older THEN 1 ELSE 0)
    IN  IF bonus.some /\ senior_count > 0
        THEN IF Money_le(a, threshold_for(bonus.phase_out, s))
             THEN Money_mul(from_dollars(bonus.amount_per_person),
                            from_dollars(senior_count))
             ELSE Money_sub(from_dollars(bonus.amount_per_person * senior_count),
                            reduction(bonus.phase_out, s, a))
        ELSE ZERO

\* faulty variant of senior_bonus_addition: above the threshold the bonus is
\* lost at once
senior_bonus_addition_cliff(r, s, f, a) ==
    LET bonus == senior_bonus_deduction(r)
        senior_count ==
            (IF f.taxpayer_65_or_older THEN 1 ELSE 0)
            + (IF s = "MarriedFilingJointly" /\ f.spouse_65_or_older THEN 1 ELSE 0)
    IN  IF bonus.some /\ senior_count > 0 /\ Money_le(a, threshold_for(bonus.phase_out, s))
        THEN Money_mul(from_dollars(bonus.amount_per_person),
                       from_dollars(senior_count))
        ELSE ZERO

\* what the senior bonus block adds to "deduction" (zero when it adds nothing)
senior_bonus_addition(r, s, f, a) ==
    LET bonus == senior_bonus_deduction(r)
        senior_count ==
            (IF f.taxpayer_65_or_older THEN 1 ELSE 0)
            + (IF s = "MarriedFilingJointly" /\ f.spouse_65_or_older THEN 1 ELSE 0)
    IN  IF bonus.some /\ senior_count > 0
        THEN IF Money_le(a, threshold_for(bonus.phase_out, s))
             THEN Money_mul(from_dollars(bonus.amount_per_person),
                            from_dollars(senior_count))
             ELSE saturating_sub(from_dollars(bonus.amount_per_person * senior_count),
                                 reduction(bonus.phase_out, s, a))
        ELSE ZERO

standard_deduction(r, s, f, a) ==
    Money_add(standard_deduction_additions(r, s, f), senior_bonus_addition(r, s, f, a))

(***************************************************************************)
(* traits/rules.rs: a call on a shared rules object (Arc<dyn TaxRules>,    *)
(* TaxRules: Send + Sync), one read of the rules at a time.  A computation *)
(* is the call, its arguments, its local variables and its result; every   *)
(* method takes &self and the rules hold no Cell, lock or static.          *)
(***************************************************************************)

\* faulty variant of computation_step: calculate_tax takes each bracket off
\* the front of the rules' table as it reads it
computation_step_draining(r, comp) ==
    LET l == comp.locals
        s == comp.status
        bs == brackets(r, s)
        finished(v) == [comp EXCEPT !.pc = "done", !.out = <<v>>]
        tail(field) == IF r[field] = bs THEN Tail(bs) ELSE r[field]
    IN  CASE comp.call = "calculate_tax" ->
               IF bs = <<>> \/ Money_le(comp.amount, l.acc.prev_max)
               THEN [rules |-> r, computation |-> finished(l.acc.total_tax)]
               ELSE [rules |-> [field \in DOMAIN r |->
                                   IF field = "ctc_phase_out" THEN r[field]
                                   ELSE tail(field)],
                     computation |->
                        [comp EXCEPT !.locals =
                            [i |-> l.i + 1,
                             acc |-> calculate_tax_body(l.acc, Head(bs), comp.amount)]]]
          [] comp.call = "standard_deduction" ->
               IF l.deduction = <<>>
               THEN [rules |-> r,
                     computation |->
                        [comp EXCEPT !.locals =
                            [deduction |->
                                <<standard_deduction_additions(r, s, comp.flags)>>]]]
               ELSE [rules |-> r,
                     computation |->
                        finished(Money_add(l.deduction[1],
                                     senior_bonus_addition(r, s, comp.flags, comp.amount)))]
          [] comp.call = "year" ->
               [rules |-> r, computation |-> finished(Rules2025_year(r))]
          [] comp.call = "brackets" ->
               [rules |-> r, computation |-> finished(bs)]

\* the next step of a call: calculate_tax up to the end of one pass of its
\* loop (or its return), standard_deduction up to the senior bonus block and
\* then to its return, year() and brackets() whole; self is not assigned
computation_step(r, comp) ==
    LET l == comp.locals
        s == comp.status
        bs == brackets(r, s)
        finished(v) == [comp EXCEPT !.pc = "done", !.out = <<v>>]
    IN  CASE comp.call = "calculate_tax" ->
               IF l.i > Len(bs) \/ Money_le(comp.amount, l.acc.prev_max)
               THEN [rules |-> r, computation |-> finished(l.acc.total_tax)]
               ELSE [rules |-> r,
                     computation |->
                        [comp EXCEPT !.locals =
                            [i |-> l.i + 1,
                             acc |-> calculate_tax_body(l.acc, bs[l.i], comp.amount)]]]
          [] comp.call = "standard_deduction" ->
               IF l.deduction = <<>>
               THEN [rules |-> r,
                     computation |->
                        [comp EXCEPT !.locals =
                            [deduction |->
                                <<standard_deduction_additions(r, s, comp.flags)>>]]]
               ELSE [rules |-> r,
                     computation |->
                        finished(Money_add(l.deduction[1],
                                     senior_bonus_addition(r, s, comp.flags, comp.amount)))]
          [] comp.call = "year" ->
               [rules |-> r, computation |-> finished(Rules2025_year(r))]
          [] comp.call = "brackets" ->
               [rules |-> r, computation |-> finished(bs)]


(***************************************************************************)
(* types.rs: supported years; error.rs: TaxError; rules/loader.rs          *)
(***************************************************************************)

MIN_SUPPORTED_YEAR == 2025

MAX_SUPPORTED_YEAR == 2025

\* TaxResult<T>: Ok(value) or Err(TaxError)
Ok(v) == [ok |-> TRUE, val |-> <<v>>, err |-> <<>>]

Err(e) == [ok |-> FALSE, val |-> <<>>, err |-> <<e>>]

\* TaxError::UnsupportedTaxYear(requested, min, max)
UnsupportedTaxYear(y, lo, hi) == [kind |-> "UnsupportedTaxYear", args |-> <<y, lo, hi>>]

\* TaxError::RulesNotFound(year)
RulesNotFound(y) == [kind |-> "RulesNotFound", args |-> <<y>>]

\* TaxError::InvalidValue { field, reason }
InvalidValue(field, reason) == [kind |-> "InvalidValue", field |-> field, reason |-> reason]

\* #[error(..)] Display of a TaxError, as the pieces the format string joins
TaxError_display(e) ==
    CASE e.kind = "UnsupportedTaxYear" ->
            <<"tax year ", e.args[1], " is not supported (supported: ",
              e.args[2], "-", e.args[3], ")">>
      [] e.kind = "RulesNotFound" -> <<"tax rules not found for year ", e.args[1]>>
      [] e.kind = "InvalidValue" ->
            <<"invalid value for ", e.field, ": ">> \o e.reason

\* faulty variant of load: the generic not-found error for an unknown year
load_rules_not_found(y) ==
    IF y = 2025 THEN Ok(Rules2025_new) ELSE Err(RulesNotFound(y))

\* RulesLoader::load
load(y) ==
    IF y = 2025 THEN Ok(Rules2025_new)
    ELSE Err(UnsupportedTaxYear(y, MIN_SUPPORTED_YEAR, MAX_SUPPORTED_YEAR))

\* faulty variant of is_supported: the range MIN..MAX without its end
is_supported_exclusive(y) == MIN_SUPPORTED_YEAR <= y /\ y < MAX_SUPPORTED_YEAR

\* RulesLoader::is_supported: RangeInclusive::contains
is_supported(y) == MIN_SUPPORTED_YEAR <= y /\ y <= MAX_SUPPORTED_YEAR

\* RulesLoader::supported_years: the RangeInclusive MIN..=MAX
supported_years == [start |-> MIN_SUPPORTED_YEAR, end |-> MAX_SUPPORTED_YEAR]

(***************************************************************************)
(* error.rs: ValidationError, ValidationErrors                             *)
(* A message is the sequence of pieces its format string joins.            *)
(***************************************************************************)

\* ValidationError::error(field, message)
ValidationError_error(field, message) ==
    [field |-> field, message |-> message, severity |-> "Error"]

\* ValidationError::warning(field, message)
ValidationError_warning(field, message) ==
    [field |-> field, message |-> message, severity |-> "Warning"]

\* ValidationErrors::new()
ValidationErrors_new == <<>>

\* ValidationErrors::add
ValidationErrors_add(es, e) == Append(es, e)

\* ValidationErrors::add_error
add_error(es, field, message) ==
    ValidationErrors_add(es, ValidationError_error(field, message))

\* faulty variant of has_errors: any entry counts, warnings too
has_errors_any_entry(es) == es # <<>>

has_errors(es) == \E i \in 1..Len(es) : es[i].severity = "Error"

has_warnings(es) == \E i \in 1..Len(es) : es[i].severity = "Warning"

\* ValidationErrors::errors(): the Error-severity entries, in order
RECURSIVE ValidationErrors_errors(_)
ValidationErrors_errors(es) ==
    IF es = <<>> THEN <<>>
    ELSE IF Head(es).severity = "Error"
         THEN <<Head(es)>> \o ValidationErrors_errors(Tail(es))
         ELSE ValidationErrors_errors(Tail(es))

\* ValidationErrors::warnings(): the Warning-severity entries, in order
RECURSIVE ValidationErrors_warnings(_)
ValidationErrors_warnings(es) ==
    IF es = <<>> THEN <<>>
    ELSE IF Head(es).severity = "Warning"
         THEN <<Head(es)>> \o ValidationErrors_warnings(Tail(es))
         ELSE ValidationErrors_warnings(Tail(es))

\* ValidationErrors::is_empty(): Vec::is_empty of the entries
ValidationErrors_is_empty(es) == Len(es) = 0

\* faulty variant of all(): the warnings are left out
ValidationErrors_all_without_warnings(es) == ValidationErrors_errors(es)

\* ValidationErrors::all(): the entries as stored
ValidationErrors_all(es) == es

\* [String]::join("; ") over the messages
RECURSIVE join(_)
join(messages) ==
    IF messages = <<>> THEN <<>>
    ELSE IF Len(messages) = 1 THEN messages[1]
         ELSE messages[1] \o <<"; ">> \o join(Tail(messages))

\* the unit value of Ok(())
Unit == "()"

\* ValidationErrors::into_result
into_result(es) ==
    IF has_errors(es)
    THEN LET errs == ValidationErrors_errors(es)
             messages == [i \in 1..Len(errs) |-> errs[i].message]
         IN  Err(InvalidValue("multiple", join(messages)))
    ELSE Ok(Unit)

(***************************************************************************)
(* inputs/w2.rs: W2 and its validation                                     *)
(* A String whose characters the code inspects is the sequence of its      *)
(* characters; str::len counts UTF-8 bytes, Vec<char> counts characters.   *)
(***************************************************************************)

AsciiDigits == {"0", "1", "2", "3", "4", "5", "6", "7", "8", "9"}

\* char::len_utf8 of the characters used here ("é" is U+00E9, two bytes)
len_utf8(c) == IF c = "é" THEN 2 ELSE 1

\* str::len: the length in bytes
RECURSIVE str_len(_)
str_len(str) == IF str = <<>> THEN 0 ELSE len_utf8(Head(str)) + str_len(Tail(str))

\* the && chain of a format test over chars, left to right: a conjunct that
\* slices or indexes past the end of the Vec<char> panics, a failed conjunct
\* ends the chain with false
RECURSIVE format_chain(_, _, _)
format_chain(chars, conjuncts, i) ==
    IF i > Len(conjuncts) THEN "true"
    ELSE LET c == conjuncts[i]
         IN  IF c.hi > Len(chars) THEN "panic"
             ELSE IF \A k \in (c.lo + 1)..c.hi :
                        IF c.digit THEN chars[k] \in AsciiDigits ELSE chars[k] = "-"
                  THEN format_chain(chars, conjuncts, i + 1)
                  ELSE "false"

\* chars[lo..hi] are all ASCII digits
Digits(lo, hi) == [digit |-> TRUE, lo |-> lo, hi |-> hi]

\* chars[at] == '-'
Dash(at) == [digit |-> FALSE, lo |-> at, hi |-> at + 1]

\* W2::is_valid_ssn: "true", "false" or "panic"
is_valid_ssn(ssn) ==
    IF str_len(ssn) # 11 THEN "false"
    ELSE format_chain(ssn, <<Digits(0, 3), Dash(3), Digits(4, 6), Dash(6), Digits(7, 11)>>, 1)

\* W2::is_valid_ein: "true", "false" or "panic"
is_valid_ein(ein) ==
    IF str_len(ein) # 10 THEN "false"
    ELSE format_chain(ein, <<Digits(0, 2), Dash(2), Digits(3, 10)>>, 1)

is_valid_box_12_code(code) ==
    code \in {"A", "B", "C", "D", "E", "F", "G", "H", "J", "K", "L", "M", "N", "P",
              "Q", "R", "S", "T", "V", "W", "Y", "Z", "AA", "BB", "DD", "EE", "FF",
              "GG", "HH"}

\* usize formatted by "{}"
usize_to_string(i) == <<"0", "1", "2", "3", "4", "5", "6", "7", "8", "9">>[i + 1]

\* impl Default for W2 (the fields validate reads)
W2_default ==
    [employee_ssn |-> <<>>,
     employer_ein |-> <<>>,
     box_1_wages |-> ZERO,
     box_2_federal_tax_withheld |-> ZERO,
     box_3_social_security_wages |-> ZERO,
     box_12 |-> <<>>]

\* the Box 12 loop of validate from entry i (0-based) on
RECURSIVE validate_box_12(_, _, _)
validate_box_12(es, box_12, i) ==
    IF i >= Len(box_12) THEN es
    ELSE validate_box_12(
             IF ~is_valid_box_12_code(box_12[i + 1].code)
             THEN add_error(es, <<"box_12[", usize_to_string(i), "].code">>,
                            <<"Invalid Box 12 code: ", box_12[i + 1].code>>)
             ELSE es,
             box_12, i + 1)

\* W2::validate: [panicked, ret]; ret holds the TaxResult when it returns
validate(w) ==
    LET ssn == IF w.employee_ssn # <<>> THEN is_valid_ssn(w.employee_ssn) ELSE "true"
        ein == IF w.employer_ein # <<>> THEN is_valid_ein(w.employer_ein) ELSE "true"
        e0 == ValidationErrors_new
        e1 == IF ssn = "false"
              THEN add_error(e0, <<"employee_ssn">>,
                             <<"Invalid SSN format (expected XXX-XX-XXXX)">>)
              ELSE e0
        e2 == IF ein = "false"
              THEN add_error(e1, <<"employer_ein">>,
                             <<"Invalid EIN format (expected XX-XXXXXXX)">>)
              ELSE e1
        e3 == IF is_negative(w.box_1_wages)
              THEN add_error(e2, <<"box_1_wages">>, <<"Wages cannot be negative">>)
              ELSE e2
        e4 == IF is_negative(w.box_2_federal_tax_withheld)
              THEN add_error(e3, <<"box_2_federal_tax_withheld">>,
                             <<"Federal tax withheld cannot be negative">>)
              ELSE e3
        e5 == IF is_negative(w.box_3_social_security_wages)
              THEN add_error(e4, <<"box_3_social_security_wages">>,
                             <<"Social Security wages cannot be negative">>)
              ELSE e4
        e6 == validate_box_12(e5, w.box_12, 0)
    IN  IF ssn = "panic" \/ ein = "panic"
        THEN [panicked |-> TRUE, ret |-> <<>>]
        ELSE [panicked |-> FALSE, ret |-> <<into_result(e6)>>]

(***************************************************************************)
(* types.rs: Dependent and its credit eligibility                          *)
(***************************************************************************)

DependentRelationship ==
    {"Son", "Daughter", "Stepchild", "FosterChild", "Brother", "Sister",
     "Stepbrother", "Stepsister", "HalfBrother", "HalfSister", "Grandchild",
     "Niece", "Nephew", "Parent", "Grandparent", "AuntUncle", "Other"}

\* the fields of Dependent the eligibility methods read; ssn is its characters
Dependent(ssn, relationship, dep_age, months) ==
    [ssn |-> ssn, relationship |-> relationship, age |-> dep_age,
     months_lived_with_taxpayer |-> months]

is_qualifying_child_relationship(d) ==
    d.relationship \in
        {"Son", "Daughter", "Stepchild", "FosterChild", "Brother", "Sister",
         "Stepbrother", "Stepsister", "HalfBrother", "HalfSister", "Grandchild",
         "Niece", "Nephew"}

\* faulty variant of qualifies_for_ctc: the age test admits a 17-year-old
qualifies_for_ctc_through_17(d) ==
    /\ d.age <= 17
    /\ d.months_lived_with_taxpayer >= 6
    /\ is_qualifying_child_relationship(d)
    /\ ~(d.ssn = <<>>)

qualifies_for_ctc(d) ==
    /\ d.age < 17
    /\ d.months_lived_with_taxpayer >= 6
    /\ is_qualifying_child_relationship(d)
    /\ ~(d.ssn = <<>>)

qualifies_for_odc(d) == ~qualifies_for_ctc(d)

(***************************************************************************)
(* types.rs: TaxpayerInfo and its age at year end                          *)
(* date_of_birth is the sequence of its characters; str::get takes byte    *)
(* offsets and answers None off a character boundary or past the end.      *)
(***************************************************************************)

\* u8::MAX, the width of an age
U8Max == 2^8 - 1

NoneInt == [some |-> FALSE, v |-> 0]

SomeInt(n) == [some |-> TRUE, v |-> n]

\* the UTF-8 bytes of a string: the character at its first byte, then a
\* continuation mark for each further byte
RECURSIVE utf8_bytes(_)
utf8_bytes(str) ==
    IF str = <<>> THEN <<>>
    ELSE <<Head(str)>> \o [k \in 1..(len_utf8(Head(str)) - 1) |-> "continuation"]
         \o utf8_bytes(Tail(str))

\* str::get(lo..hi): <<the slice>> or <<>> for None
str_get(str, lo, hi) ==
    LET bytes == utf8_bytes(str)
        is_char_boundary(index) ==
            \/ index = 0
            \/ index = Len(bytes)
            \/ (index < Len(bytes) /\ bytes[index + 1] # "continuation")
    IN  IF lo <= hi /\ hi <= Len(bytes)
           /\ is_char_boundary(lo) /\ is_char_boundary(hi)
        THEN <<SubSeq(bytes, lo + 1, hi)>>
        ELSE <<>>

DigitChars == <<"0", "1", "2", "3", "4", "5", "6", "7", "8", "9">>

\* the digit loop of str::parse for an unsigned integer: None on a
\* non-digit or when the value passes the type's maximum
RECURSIVE parse_digits(_, _, _)
parse_digits(src, acc, max) ==
    LET to_digit == (CHOOSE n \in 1..10 : DigitChars[n] = Head(src)) - 1
    IN  IF src = <<>> THEN SomeInt(acc)
        ELSE IF Head(src) \notin AsciiDigits THEN NoneInt
        ELSE IF acc * 10 + to_digit > max THEN NoneInt
        ELSE parse_digits(Tail(src), acc * 10 + to_digit, max)

\* str::parse::<u16>() / ::<u8>() followed by .ok(): an optional "+" sign,
\* then at least one digit
parse_unsigned(src, max) ==
    IF src = <<>> THEN NoneInt
    ELSE IF src = <<"+">> \/ src = <<"-">> THEN NoneInt
    ELSE IF Head(src) = "+" THEN parse_digits(Tail(src), 0, max)
    ELSE parse_digits(src, 0, max)

age_at_year_end(t, ty) ==
    LET \* self.date_of_birth.get(lo..hi)?.parse().ok()?
        get_parse(lo, hi, max) ==
            LET slice == str_get(t.date_of_birth, lo, hi)
            IN  IF slice = <<>> THEN NoneInt ELSE parse_unsigned(slice[1], max)
        birth_year == get_parse(0, 4, 2^16 - 1)
        birth_month == get_parse(5, 7, U8Max)
        birth_day == get_parse(8, 10, U8Max)
        \* tax_year.saturating_sub(birth_year) as u8
        years == (IF ty > birth_year.v THEN ty - birth_year.v ELSE 0) % (U8Max + 1)
    IN  IF ~birth_year.some \/ ~birth_month.some \/ ~birth_day.some THEN NoneInt
        ELSE IF birth_month.v = 12 /\ birth_day.v = 31 THEN SomeInt(years)
        ELSE IF birth_month.v > 12 THEN NoneInt
        ELSE SomeInt(years)

is_65_or_older(t, ty) ==
    LET a == age_at_year_end(t, ty)
    IN  IF a.some THEN a.v >= 65 ELSE FALSE

(***************************************************************************)
(* outputs/form1040.rs: Form1040 and its line calculations                 *)
(***************************************************************************)

\* the currency lines of the form, in the order the struct declares them
Form1040Lines ==
    <<"line_1a", "line_1b", "line_1c", "line_1d", "line_1e", "line_1f",
      "line_1g", "line_1h", "line_1i", "line_1z", "line_2a", "line_2b",
      "line_3a", "line_3b", "line_4a", "line_4b", "line_5a", "line_5b",
      "line_6a", "line_6b", "line_7", "line_8", "line_9", "line_10",
      "line_11", "line_12", "line_13a", "line_13b", "line_14", "line_15",
      "line_16", "line_17", "line_18", "line_19", "line_20", "line_21",
      "line_22", "line_23", "line_24", "line_25a", "line_25b", "line_25c",
      "line_25d", "line_26", "line_27a", "line_28", "line_29", "line_30",
      "line_31", "line_32", "line_33", "line_34", "line_35a", "line_36",
      "line_37", "line_38">>

Form1040_new(ty) ==
    [field \in {"tax_year", "line_12_standard_deduction"}
               \cup {Form1040Lines[i] : i \in 1..Len(Form1040Lines)} |->
        IF field = "tax_year" THEN ty
        ELSE IF field = "line_12_standard_deduction" THEN TRUE
        ELSE ZERO]

\* faulty variant of calculate_line_1z: line 1i is added as well
calculate_line_1z_with_1i(f) ==
    [f EXCEPT !.line_1z =
        Money_add(Money_add(Money_add(Money_add(Money_add(Money_add(Money_add(Money_add(
            f.line_1a, f.line_1b), f.line_1c), f.line_1d), f.line_1e),
            f.line_1f), f.line_1g), f.line_1h), f.line_1i)]

calculate_line_1z(f) ==
    [f EXCEPT !.line_1z =
        Money_add(Money_add(Money_add(Money_add(Money_add(Money_add(Money_add(
            f.line_1a, f.line_1b), f.line_1c), f.line_1d), f.line_1e),
            f.line_1f), f.line_1g), f.line_1h)]

calculate_line_9(f) ==
    [f EXCEPT !.line_9 =
        Money_add(Money_add(Money_add(Money_add(Money_add(Money_add(Money_add(
            f.line_1z, f.line_2b), f.line_3b), f.line_4b), f.line_5b),
            f.line_6b), f.line_7), f.line_8)]

calculate_line_11(f) ==
    [f EXCEPT !.line_11 = saturating_sub(f.line_9, f.line_10)]

calculate_line_14(f) ==
    [f EXCEPT !.line_14 = Money_add(Money_add(f.line_12, f.line_13a), f.line_13b)]

calculate_line_15(f) ==
    [f EXCEPT !.line_15 = saturating_sub(f.line_11, f.line_14)]

calculate_line_18(f) ==
    [f EXCEPT !.line_18 = Money_add(f.line_16, f.line_17)]

calculate_line_21(f) ==
    [f EXCEPT !.line_21 = Money_add(f.line_19, f.line_20)]

\* faulty variant of calculate_line_22: a plain subtraction, no floor
calculate_line_22_unfloored(f) ==
    [f EXCEPT !.line_22 = Money_sub(f.line_18, f.line_21)]

calculate_line_22(f) ==
    [f EXCEPT !.line_22 = saturating_sub(f.line_18, f.line_21)]

\* faulty variant of calculate_line_24: the sum is added to the line
calculate_line_24_accumulates(f) ==
    [f EXCEPT !.line_24 = Money_add(f.line_24, Money_add(f.line_22, f.line_23))]

calculate_line_24(f) ==
    [f EXCEPT !.line_24 = Money_add(f.line_22, f.line_23)]

calculate_line_25d(f) ==
    [f EXCEPT !.line_25d = Money_add(Money_add(f.line_25a, f.line_25b), f.line_25c)]

calculate_line_32(f) ==
    [f EXCEPT !.line_32 =
        Money_add(Money_add(Money_add(Money_add(
            f.line_27a, f.line_28), f.line_29), f.line_30), f.line_31)]

\* faulty variant of calculate_line_33: line 25d is recomputed on the way
calculate_line_33_with_25d(f) ==
    LET g == [f EXCEPT !.line_25d =
                 Money_add(Money_add(f.line_25a, f.line_25b), f.line_25c)]
    IN  [g EXCEPT !.line_33 = Money_add(Money_add(g.line_25d, g.line_26), g.line_32)]

calculate_line_33(f) ==
    [f EXCEPT !.line_33 = Money_add(Money_add(f.line_25d, f.line_26), f.line_32)]

\* faulty variant of calculate_refund_or_owed: payments equal to the tax
\* take the refund branch
calculate_refund_or_owed_ge(f) ==
    IF Money_le(f.line_24, f.line_33)
    THEN [f EXCEPT !.line_34 = Money_sub(f.line_33, f.line_24),
                   !.line_35a = Money_sub(Money_sub(f.line_33, f.line_24), f.line_36),
                   !.line_37 = ZERO]
    ELSE [f EXCEPT !.line_34 = ZERO,
                   !.line_35a = ZERO,
                   !.line_37 = Money_add(Money_sub(f.line_24, f.line_33), f.line_38)]

calculate_refund_or_owed(f) ==
    IF Money_lt(f.line_24, f.line_33)
    THEN [f EXCEPT !.line_34 = Money_sub(f.line_33, f.line_24),
                   !.line_35a = Money_sub(Money_sub(f.line_33, f.line_24), f.line_36),
                   !.line_37 = ZERO]
    ELSE [f EXCEPT !.line_34 = ZERO,
                   !.line_35a = ZERO,
                   !.line_37 = Money_add(Money_sub(f.line_24, f.line_33), f.line_38)]

\* faulty variant of is_refund: the refund after line 36 is looked at
is_refund_35a(f) == is_positive(f.line_35a)

is_refund(f) == is_positive(f.line_34)

net_result(f) == IF is_refund(f) THEN f.line_35a ELSE Money_sub(ZERO, f.line_37)

\* faulty variant of Form1040_line: an identifier that is no line of the
\* form is answered with a zero amount
Form1040_line_unknown_zero(f, line_id) ==
    IF \E i \in 1..Len(Form1040Lines) : Form1040Lines[i] = "line_" \o line_id
    THEN <<[Currency |-> f["line_" \o line_id]]>>
    ELSE <<[Currency |-> ZERO]>>

\* impl OutputForm for Form1040: line(), arm by arm; an Option<FormValue>
\* is <<>> for None and <<[Currency |-> amount]>> for
\* Some(FormValue::Currency(amount))
Form1040_line(f, line_id) ==
    CASE line_id = "1a" -> <<[Currency |-> f.line_1a]>>
      [] line_id = "1b" -> <<[Currency |-> f.line_1b]>>
      [] line_id = "1c" -> <<[Currency |-> f.line_1c]>>
      [] line_id = "1d" -> <<[Currency |-> f.line_1d]>>
      [] line_id = "1e" -> <<[Currency |-> f.line_1e]>>
      [] line_id = "1f" -> <<[Currency |-> f.line_1f]>>
      [] line_id = "1g" -> <<[Currency |-> f.line_1g]>>
      [] line_id = "1h" -> <<[Currency |-> f.line_1h]>>
      [] line_id = "1i" -> <<[Currency |-> f.line_1i]>>
      [] line_id = "1z" -> <<[Currency |-> f.line_1z]>>
      [] line_id = "2a" -> <<[Currency |-> f.line_2a]>>
      [] line_id = "2b" -> <<[Currency |-> f.line_2b]>>
      [] line_id = "3a" -> <<[Currency |-> f.line_3a]>>
      [] line_id = "3b" -> <<[Currency |-> f.line_3b]>>
      [] line_id = "4a" -> <<[Currency |-> f.line_4a]>>
      [] line_id = "4b" -> <<[Currency |-> f.line_4b]>>
      [] line_id = "5a" -> <<[Currency |-> f.line_5a]>>
      [] line_id = "5b" -> <<[Currency |-> f.line_5b]>>
      [] line_id = "6a" -> <<[Currency |-> f.line_6a]>>
      [] line_id = "6b" -> <<[Currency |-> f.line_6b]>>
      [] line_id = "7" -> <<[Currency |-> f.line_7]>>
      [] line_id = "8" -> <<[Currency |-> f.line_8]>>
      [] line_id = "9" -> <<[Currency |-> f.line_9]>>
      [] line_id = "10" -> <<[Currency |-> f.line_10]>>
      [] line_id = "11" -> <<[Currency |-> f.line_11]>>
      [] line_id = "12" -> <<[Currency |-> f.line_12]>>
      [] line_id = "13a" -> <<[Currency |-> f.line_13a]>>
      [] line_id = "13b" -> <<[Currency |-> f.line_13b]>>
      [] line_id = "14" -> <<[Currency |-> f.line_14]>>
      [] line_id = "15" -> <<[Currency |-> f.line_15]>>
      [] line_id = "16" -> <<[Currency |-> f.line_16]>>
      [] line_id = "17" -> <<[Currency |-> f.line_17]>>
      [] line_id = "18" -> <<[Currency |-> f.line_18]>>
      [] line_id = "19" -> <<[Currency |-> f.line_19]>>
      [] line_id = "20" -> <<[Currency |-> f.line_20]>>
      [] line_id = "21" -> <<[Currency |-> f.line_21]>>
      [] line_id = "22" -> <<[Currency |-> f.line_22]>>
      [] line_id = "23" -> <<[Currency |-> f.line_23]>>
      [] line_id = "24" -> <<[Currency |-> f.line_24]>>
      [] line_id = "25a" -> <<[Currency |-> f.line_25a]>>
      [] line_id = "25b" -> <<[Currency |-> f.line_25b]>>
      [] line_id = "25c" -> <<[Currency |-> f.line_25c]>>
      [] line_id = "25d" -> <<[Currency |-> f.line_25d]>>
      [] line_id = "26" -> <<[Currency |-> f.line_26]>>
      [] line_id = "27a" -> <<[Currency |-> f.line_27a]>>
      [] line_id = "28" -> <<[Currency |-> f.line_28]>>
      [] line_id = "29" -> <<[Currency |-> f.line_29]>>
      [] line_id = "30" -> <<[Currency |-> f.line_30]>>
      [] line_id = "31" -> <<[Currency |-> f.line_31]>>
      [] line_id = "32" -> <<[Currency |-> f.line_32]>>
      [] line_id = "33" -> <<[Currency |-> f.line_33]>>
      [] line_id = "34" -> <<[Currency |-> f.line_34]>>
      [] line_id = "35a" -> <<[Currency |-> f.line_35a]>>
      [] line_id = "36" -> <<[Currency |-> f.line_36]>>
      [] line_id = "37" -> <<[Currency |-> f.line_37]>>
      [] line_id = "38" -> <<[Currency |-> f.line_38]>>
      [] OTHER -> <<>>

\* impl OutputForm for Form1040: lines(), the Vec<FormLine> it builds
Form1040_lines(f) ==
    <<[line_id |-> "1a", label |-> "Wages from W-2",
       value |-> [Currency |-> f.line_1a]],
      [line_id |-> "1z", label |-> "Total wages",
       value |-> [Currency |-> f.line_1z]],
      [line_id |-> "2b", label |-> "Taxable interest",
       value |-> [Currency |-> f.line_2b]],
      [line_id |-> "3b", label |-> "Ordinary dividends",
       value |-> [Currency |-> f.line_3b]],
      [line_id |-> "9", label |-> "Total income",
       value |-> [Currency |-> f.line_9]],
      [line_id |-> "10", label |-> "Adjustments to income",
       value |-> [Currency |-> f.line_10]],
      [line_id |-> "11", label |-> "Adjusted gross income",
       value |-> [Currency |-> f.line_11]],
      [line_id |-> "12", label |-> "Standard/itemized deduction",
       value |-> [Currency |-> f.line_12]],
      [line_id |-> "14", label |-> "Total deductions",
       value |-> [Currency |-> f.line_14]],
      [line_id |-> "15", label |-> "Taxable income",
       value |-> [Currency |-> f.line_15]],
      [line_id |-> "16", label |-> "Tax",
       value |-> [Currency |-> f.line_16]],
      [line_id |-> "19", label |-> "Child tax credit",
       value |-> [Currency |-> f.line_19]],
      [line_id |-> "24", label |-> "Total tax",
       value |-> [Currency |-> f.line_24]],
      [line_id |-> "25d", label |-> "Total withholding",
       value |-> [Currency |-> f.line_25d]],
      [line_id |-> "33", label |-> "Total payments",
       value |-> [Currency |-> f.line_33]],
      [line_id |-> "34", label |-> "Overpayment",
       value |-> [Currency |-> f.line_34]],
      [line_id |-> "35a", label |-> "Refund",
       value |-> [Currency |-> f.line_35a]],
      [line_id |-> "37", label |-> "Amount owed",
       value |-> [Currency |-> f.line_37]]>>

(***************************************************************************)
(* traits/input.rs: InputForm and InputFormCollection                      *)
(* A Box<dyn InputForm> is either a W2 (the fields its InputForm impl      *)
(* reads) or another implementor, given by what its methods return.        *)
(***************************************************************************)

\* the methods the aggregates call
InputFormMethods ==
    {"wages", "taxable_interest", "ordinary_dividends", "qualified_dividends",
     "federal_withholding", "state_withholding"}

W2Form(box_1_wages, box_2_federal_tax_withheld, state_taxes) ==
    [kind |-> "W2",
     box_1_wages |-> box_1_wages,
     box_2_federal_tax_withheld |-> box_2_federal_tax_withheld,
     state_info |-> [i \in 1..Len(state_taxes) |-> [state_tax_withheld |-> state_taxes[i]]]]

\* an implementor that overrides the methods in returns and leaves the
\* others at the trait's default
OtherForm(returns) ==
    [kind |-> "Other",
     returns |-> [m \in InputFormMethods |->
                     IF m \in DOMAIN returns THEN Some(returns[m]) ELSE None]]

total_state_tax_withheld(w) ==
    Money_sum([i \in 1..Len(w.state_info) |-> w.state_info[i].state_tax_withheld])

\* impl InputForm for W2
W2_InputForm(w, method) ==
    CASE method = "wages" -> Some(w.box_1_wages)
      [] method = "federal_withholding" -> Some(w.box_2_federal_tax_withheld)
      [] method = "state_withholding" ->
            IF is_zero(total_state_tax_withheld(w)) THEN None
            ELSE Some(total_state_tax_withheld(w))
      [] OTHER -> None

\* dynamic dispatch of f.method()
InputForm_call(f, method) ==
    IF f.kind = "W2" THEN W2_InputForm(f, method) ELSE f.returns[method]

\* faulty variant of filter_map: the iteration ends at the first form that
\* returns None (map_while)
RECURSIVE map_while(_, _)
map_while(fs, method) ==
    IF fs = <<>> THEN <<>>
    ELSE IF InputForm_call(Head(fs), method).some
         THEN <<InputForm_call(Head(fs), method).v>> \o map_while(Tail(fs), method)
         ELSE <<>>

\* iter().filter_map(|f| f.method())
RECURSIVE filter_map(_, _)
filter_map(fs, method) ==
    IF fs = <<>> THEN <<>>
    ELSE IF InputForm_call(Head(fs), method).some
         THEN <<InputForm_call(Head(fs), method).v>> \o filter_map(Tail(fs), method)
         ELSE filter_map(Tail(fs), method)

total_wages(fs) == Money_sum(filter_map(fs, "wages"))

total_taxable_interest(fs) == Money_sum(filter_map(fs, "taxable_interest"))

total_ordinary_dividends(fs) == Money_sum(filter_map(fs, "ordinary_dividends"))

total_qualified_dividends(fs) == Money_sum(filter_map(fs, "qualified_dividends"))

total_federal_withholding(fs) == Money_sum(filter_map(fs, "federal_withholding"))

total_state_withholding(fs) == Money_sum(filter_map(fs, "state_withholding"))

(***************************************************************************)
(* Bracket tax: a return computation asks the shared rules object for the  *)
(* brackets of its filing status and for the tax on each pending income.   *)
(***************************************************************************)

\* sampled incomes lie within MaxDelta cents of zero and of every bracket bound
MaxDelta == 1

NoTable == [some |-> FALSE, v |-> <<>>]

NoFlags ==
    [taxpayer_65_or_older |-> FALSE, taxpayer_blind |-> FALSE,
     spouse_65_or_older |-> FALSE, spouse_blind |-> FALSE]

NoDeduction == [some |-> FALSE, before_bonus |-> ZERO, v |-> ZERO]

\* no read-only call was made since the object last changed
NoRead == [op |-> "", arg |-> <<>>, out |-> <<>>]

\* a read-only call (&self) and what it returned; no other state changes
Read(op, arg, out) ==
    /\ reads' = [op |-> op, arg |-> arg, out |-> <<out>>]
    /\ UNCHANGED <<rules, status, taxVars, dedVars, loaderVars, valVars, w2Vars,
                   returnVars, computations>>

\* the loader has not been asked
LoaderIdle == year = MIN_SUPPORTED_YEAR /\ loaded = <<>>

\* no accumulator is in use
ValidationIdle == errors = ValidationErrors_new /\ error_adds = 0 /\ converted = <<>>

\* no W-2 is under validation
W2Idle == w2 = W2_default /\ validated = <<>>

\* no bracket-tax call is pending or made
TaxIdle == pending = <<>> /\ results = <<>> /\ table = NoTable

\* no standard-deduction or phase-out call is made
DeductionIdle ==
    /\ flags = NoFlags
    /\ agi = ZERO
    /\ phase_out = Rules2025_new.ctc_phase_out
    /\ deduction = NoDeduction
    /\ reduced = None

\* no dependent's eligibility is asked
DependentIdle ==
    /\ dependent = Dependent(<<>>, "Other", 0, 0)
    /\ eligibility = [ctc |-> <<>>, odc |-> <<>>]

\* no taxpayer's age is asked
TaxpayerIdle ==
    /\ taxpayer = [date_of_birth |-> <<>>]
    /\ tax_year = MIN_SUPPORTED_YEAR
    /\ age = [at_year_end |-> <<>>, is_65 |-> <<>>]

\* no return form is being filled in
FormIdle ==
    /\ form = Form1040_new(MIN_SUPPORTED_YEAR)
    /\ calculated = [last |-> "", calls |-> 0]

\* no currency operation is applied
MoneyIdle ==
    /\ operands = [a |-> 0, b |-> 0, rate |-> 0, dollars |-> 0]
    /\ computed = [ops |-> <<>>, values |-> <<>>, outs |-> <<>>]

\* no collection of input forms is aggregated
CollectionIdle == forms = <<>> /\ totals = [m \in InputFormMethods |-> None]

\* the bracket bounds of a table, in cents
BoundCents(bs) == {as_cents(bs[i].max.v) : i \in {j \in 1..Len(bs) : bs[j].max.some}}

\* taxable incomes in cents: around zero and every bound, $50,000, and three
\* amounts inside brackets ($1,234.56, $123,456.78, $700,000.99)
IncomeCents(bs) ==
    {5000000, 123456, 12345678, 70000099}
    \cup {b + d : b \in BoundCents(bs) \cup {0}, d \in (0 - MaxDelta)..MaxDelta}

InitTax ==
    /\ rules = Rules2025_new
    /\ computations = <<>>
    /\ reads = NoRead
    /\ status \in FilingStatus
    /\ pending \in {<<from_cents(x), from_cents(y)>> :
                       x, y \in IncomeCents(brackets(Rules2025_new, status))}
    /\ results = <<>>
    /\ table = NoTable
    /\ DeductionIdle
    /\ LoaderIdle
    /\ ValidationIdle
    /\ W2Idle
    /\ DependentIdle
    /\ TaxpayerIdle
    /\ FormIdle
    /\ MoneyIdle
    /\ CollectionIdle

\* rules.calculate_tax(status, taxable_income) for the next pending income
CalculateTax ==
    /\ pending # <<>>
    /\ results' = Append(results,
                         [income |-> Head(pending),
                          tax |-> calculate_tax(rules, status, Head(pending))])
    /\ pending' = Tail(pending)
    /\ UNCHANGED <<rules, status, table, dedVars, loaderVars, valVars, w2Vars, returnVars,
                   computations, reads>>

\* rules.brackets(status)
Brackets ==
    /\ ~table.some
    /\ table' = [some |-> TRUE, v |-> brackets(rules, status)]
    /\ UNCHANGED <<rules, status, pending, results, dedVars, loaderVars, valVars, w2Vars, returnVars,
                   computations, reads>>

NextTax == CalculateTax \/ Brackets

SpecTax == InitTax /\ [][NextTax]_vars

(***************************************************************************)
(* Claims about bracket tax (checked under SpecTax)                        *)
(***************************************************************************)

RECURSIVE SumSeq(_)
SumSeq(s) == IF s = <<>> THEN 0 ELSE Head(s) + SumSeq(Tail(s))

Max0(n) == IF n > 0 THEN n ELSE 0

MinInt(a, b) == IF a <= b THEN a ELSE b

\* rate * max(0, min(x, max) - min) of every bracket, in ten-thousandths of a
\* dollar, by integer arithmetic on the income x in cents
ExactShares(bs, xc) ==
    [i \in 1..Len(bs) |->
        bs[i].rate * Max0((IF bs[i].max.some THEN MinInt(xc, as_cents(bs[i].max.v)) ELSE xc)
                          - as_cents(bs[i].min))]

ExactTax(bs, xc) ==
    LET u == ExactShares(bs, xc)
    IN  Normalize(SumSeq([i \in 1..Len(bs) |-> u[i] \div FracScale]),
                  SumSeq([i \in 1..Len(bs) |-> u[i] % FracScale]))

\* C1: for every status and taxable income x >= 0, calculate_tax is the exact
\* sum of rate * max(0, min(x, max) - min) over the brackets, unrounded; the tax
\* on 0 is 0 and the tax of a Single filer on $50,000 is exactly $5,914.00.
C1_TaxIsExactBracketSum ==
    \A k \in 1..Len(results) :
        LET xc == as_cents(results[k].income)
        IN  xc >= 0 =>
              /\ results[k].tax = ExactTax(brackets(rules, status), xc)
              /\ (xc = 0 => results[k].tax = ZERO)
              /\ (status = "Single" /\ xc = 5000000
                    => results[k].tax = from_cents(591400))

C1_Witness ==
    /\ status = "Single"
    /\ \E k \in 1..Len(results) :
          /\ results[k].income = from_dollars(50000)
          /\ results[k].tax = from_cents(591400)
    /\ \E k \in 1..Len(results) :
          results[k].income = from_cents(1192501) /\ results[k].tax.frac % 100 # 0

\* the full contributions rate * (max - min) of brackets 1..i, in cents
FullContributionCents(bs, i) ==
    SumSeq([j \in 1..i |-> bs[j].rate * (bs[j].max.v.whole - bs[j].min.whole)])

\* C2: at an income equal to a bracket's upper bound the tax is the sum of the
\* full contributions of the brackets up to and including it, and the next
\* bracket contributes nothing.
C2_ContinuousAtBounds ==
    \A k \in 1..Len(results) :
        LET bs == brackets(rules, status)
        IN  \A i \in 1..Len(bs) :
                (bs[i].max.some /\ results[k].income = bs[i].max.v) =>
                    /\ results[k].tax = from_cents(FullContributionCents(bs, i))
                    /\ tax_for_income(bs[i + 1], results[k].income) = ZERO

C2_Witness ==
    \E k \in 1..Len(results) :
        /\ results[k].income = brackets(rules, status)[3].max.v
        /\ is_positive(results[k].tax)

\* C3: for a fixed status, incomes x <= y give calculate_tax(x) <= calculate_tax(y).
C3_TaxMonotone ==
    \A j, k \in 1..Len(results) :
        Money_le(results[j].income, results[k].income)
            => Money_le(results[j].tax, results[k].tax)

C3_Witness ==
    /\ Len(results) = 2
    /\ Money_lt(results[1].income, results[2].income)
    /\ Money_lt(results[1].tax, results[2].tax)
    /\ Money_lt(brackets(rules, status)[1].max.v, results[1].income)

\* a table starts at 0, each bracket starts where the previous one ends, the
\* mins ascend strictly and only the last bracket is open-ended
Contiguous(bs) ==
    /\ Len(bs) >= 1
    /\ bs[1].min = ZERO
    /\ \A i \in 2..Len(bs) :
          /\ bs[i - 1].max.some
          /\ bs[i].min = bs[i - 1].max.v
          /\ Money_lt(bs[i - 1].min, bs[i].min)
    /\ \A i \in 1..Len(bs) : bs[i].max.some <=> i < Len(bs)

\* C4: for each status the 2025 bracket sequence is contiguous, non-overlapping
\* and covers [0, infinity); MarriedFilingJointly and QualifyingSurvivingSpouse
\* share one table and MarriedFilingSeparately has its own.
C4_BracketsContiguous ==
    table.some =>
        /\ Contiguous(table.v)
        /\ (status \in {"MarriedFilingJointly", "QualifyingSurvivingSpouse"}
              => table.v = rules.brackets_mfj)
        /\ (status = "MarriedFilingSeparately"
              => /\ table.v = rules.brackets_mfs
                 /\ table.v # rules.brackets_mfj
                 /\ table.v # rules.brackets_single)

C4_Witness ==
    /\ table.some
    /\ status = "QualifyingSurvivingSpouse"
    /\ Len(table.v) = 7

(***************************************************************************)
(* Standard deduction and phase-out: a return computation with the         *)
(* taxpayer's age / blindness facts and AGI asks the rules for the         *)
(* standard deduction, and a PhaseOut for its reduction.                   *)
(***************************************************************************)

\* a PhaseOut whose three thresholds differ (the struct is public data)
SamplePhaseOut == PhaseOut(175000, 350000, 250000, 10)

PhaseOuts ==
    {senior_bonus_deduction(Rules2025_new).phase_out,
     Rules2025_new.ctc_phase_out,
     SamplePhaseOut}

\* AGI in cents: a loss, zero, and within MaxDelta cents of every threshold
\* and of the points where one or two senior bonuses are fully phased out
AgiCents ==
    {0 - 100000, 0}
    \cup {a * 100 + d :
            a \in {75000, 150000, 175000, 200000, 250000, 275000, 350000, 400000},
            d \in (0 - MaxDelta)..MaxDelta}

InitDeduction ==
    /\ rules = Rules2025_new
    /\ computations = <<>>
    /\ reads = NoRead
    /\ status \in FilingStatus
    /\ TaxIdle
    /\ flags \in [taxpayer_65_or_older : BOOLEAN, taxpayer_blind : BOOLEAN,
                  spouse_65_or_older : BOOLEAN, spouse_blind : BOOLEAN]
    /\ agi \in {from_cents(c) : c \in AgiCents}
    /\ phase_out \in PhaseOuts
    /\ deduction = NoDeduction
    /\ reduced = None
    /\ LoaderIdle
    /\ ValidationIdle
    /\ W2Idle
    /\ DependentIdle
    /\ TaxpayerIdle
    /\ FormIdle
    /\ MoneyIdle
    /\ CollectionIdle

\* rules.standard_deduction(status, t65, tblind, s65, sblind, agi)
StandardDeduction ==
    /\ ~deduction.some
    /\ deduction' = [some |-> TRUE,
                     before_bonus |-> standard_deduction_additions(rules, status, flags),
                     v |-> standard_deduction(rules, status, flags, agi)]
    /\ UNCHANGED <<rules, status, taxVars, flags, agi, phase_out, reduced, loaderVars, valVars, w2Vars, returnVars,
                   computations, reads>>

\* phase_out.reduction(status, agi)
Reduction ==
    /\ ~reduced.some
    /\ reduced' = Some(reduction(phase_out, status, agi))
    /\ UNCHANGED <<rules, status, taxVars, flags, agi, phase_out, deduction, loaderVars, valVars, w2Vars, returnVars,
                   computations, reads>>

NextDeduction == StandardDeduction \/ Reduction

SpecDeduction == InitDeduction /\ [][NextDeduction]_vars

(***************************************************************************)
(* Claims about the standard deduction and phase-outs (SpecDeduction)      *)
(***************************************************************************)

\* the threshold of the status's group
GroupThreshold(po, s) ==
    IF s \in {"Single", "HeadOfHousehold"} THEN po.single_threshold
    ELSE IF s \in {"MarriedFilingJointly", "QualifyingSurvivingSpouse"}
         THEN po.joint_threshold
         ELSE po.mfs_threshold

\* m if b, else nothing
If(b, m) == IF b THEN m ELSE ZERO

\* C5: before any senior bonus the standard deduction is base + age65 if the
\* taxpayer is 65+ + blind if the taxpayer is blind, plus the spouse's two
\* increments only for MarriedFilingJointly; for every other status the result
\* does not depend on the spouse flags.
C5_DeductionIncrements ==
    deduction.some =>
        LET mfj == status = "MarriedFilingJointly"
            age65 == standard_deduction_age_65(rules, status)
            blind == standard_deduction_blind(rules, status)
        IN  /\ deduction.before_bonus =
                 Money_add(standard_deduction_base(rules, status),
                   Money_add(If(flags.taxpayer_65_or_older, age65),
                     Money_add(If(flags.taxpayer_blind, blind),
                       Money_add(If(mfj /\ flags.spouse_65_or_older, age65),
                                 If(mfj /\ flags.spouse_blind, blind)))))
            /\ (~mfj => deduction.v =
                          standard_deduction(rules, status,
                              [flags EXCEPT !.spouse_65_or_older = FALSE,
                                            !.spouse_blind = FALSE], agi))

C5_Witness ==
    /\ deduction.some
    /\ status = "MarriedFilingSeparately"
    /\ flags.taxpayer_65_or_older /\ flags.taxpayer_blind
    /\ flags.spouse_65_or_older /\ flags.spouse_blind
    /\ deduction.before_bonus = from_dollars(15750 + 1600 + 1600)

\* qualifying seniors: the taxpayer if 65+, the spouse if 65+ and filing jointly
SeniorCount ==
    (IF flags.taxpayer_65_or_older THEN 1 ELSE 0)
    + (IF status = "MarriedFilingJointly" /\ flags.spouse_65_or_older THEN 1 ELSE 0)

\* what standard_deduction added on top of the base and increments
BonusAdded == Money_sub(deduction.v, deduction.before_bonus)

\* C6: with count >= 1 qualifying seniors the deduction gains amount_per_person
\* * count in full when AGI <= the status's threshold and max(0, amount_per_person
\* * count - rate * (AGI - threshold)) above it, never a negative amount; a Single
\* taxpayer aged 65+ with AGI at or below $75,000 gets $23,750.
C6_SeniorBonus ==
    (deduction.some /\ SeniorCount >= 1) =>
        LET bonus == senior_bonus_deduction(rules)
            po == bonus.phase_out
            thr == GroupThreshold(po, status)
            fullUnits == bonus.amount_per_person * SeniorCount * FracScale
            excessCents == as_cents(agi) - as_cents(thr)
        IN  /\ bonus.some
            /\ (Money_le(agi, thr) => BonusAdded = Normalize(0, fullUnits))
            /\ (Money_lt(thr, agi)
                  => BonusAdded = Normalize(0, Max0(fullUnits - po.rate * excessCents)))
            /\ ~is_negative(BonusAdded)
            /\ (status = "Single" /\ ~flags.taxpayer_blind
                  /\ Money_le(agi, from_dollars(75000))
                  => deduction.v = from_dollars(23750))

C6_Witness ==
    /\ deduction.some
    /\ status = "MarriedFilingJointly"
    /\ SeniorCount = 2
    /\ agi = from_cents(25000001)
    /\ BonusAdded = [whole |-> 5999, frac |-> 9994]

\* C29: for the status and flags of the call, the standard deduction at any
\* lower AGI is at least and at any higher AGI at most the one returned
\* (non-increasing in AGI); one cent more of AGI never lowers it by more than
\* a cent (no jump, at the threshold or elsewhere); it lies between base +
\* increments and base + increments + amount_per_person * senior count; and
\* the bonus is zero once AGI >= threshold + amount_per_person * count / rate.
C29_DeductionPhaseOutShape ==
    deduction.some =>
        LET bonus == senior_bonus_deduction(rules)
            thr == GroupThreshold(bonus.phase_out, status)
            fullUnits == bonus.amount_per_person * SeniorCount * FracScale
            here == as_cents(agi)
            at(c) == standard_deduction(rules, status, flags, from_cents(c))
        IN  /\ \A c \in AgiCents :
                  /\ c <= here => Money_le(deduction.v, at(c))
                  /\ c >= here => Money_le(at(c), deduction.v)
                  /\ c = here + 1 =>
                        Money_le(Money_sub(deduction.v, at(c)), from_cents(1))
            /\ Money_le(deduction.before_bonus, deduction.v)
            /\ Money_le(deduction.v,
                        Money_add(deduction.before_bonus,
                                  Normalize(0, fullUnits)))
            /\ (bonus.phase_out.rate * (here - as_cents(thr)) >= fullUnits
                  => deduction.v = deduction.before_bonus)
            /\ (SeniorCount >= 1
                  /\ bonus.phase_out.rate * (here - as_cents(thr)) < fullUnits
                  => Money_lt(deduction.before_bonus, deduction.v))

\* one cent above the threshold a Single senior keeps all but a fraction of
\* a cent of the bonus
C29_Witness ==
    /\ deduction.some
    /\ status = "Single"
    /\ SeniorCount = 1
    /\ agi = from_cents(7500001)
    /\ BonusAdded = [whole |-> 5999, frac |-> 9994]
    /\ deduction.v = Money_add(deduction.before_bonus, BonusAdded)

\* C7: PhaseOut.reduction is 0 at or below the threshold of the status's group,
\* rate * (agi - threshold) above it, and never negative.
C7_PhaseOutReduction ==
    reduced.some =>
        LET thr == GroupThreshold(phase_out, status)
        IN  /\ (Money_le(agi, thr) => reduced.v = ZERO)
            /\ (Money_lt(thr, agi)
                  => reduced.v =
                       Normalize(0, phase_out.rate * (as_cents(agi) - as_cents(thr))))
            /\ ~is_negative(reduced.v)

C7_Witness ==
    /\ reduced.some
    /\ status = "MarriedFilingSeparately"
    /\ phase_out = SamplePhaseOut
    /\ agi = from_dollars(275000)
    /\ reduced.v = from_dollars(2500)

(***************************************************************************)
(* Rules loader: a caller asks RulesLoader::load for a tax year.           *)
(***************************************************************************)

\* requested years lie within MaxYearSpan of the supported range
MaxYearSpan == 60

\* TaxYear is u16
Years ==
    {0, 65535} \cup ((MIN_SUPPORTED_YEAR - MaxYearSpan)..(MAX_SUPPORTED_YEAR + MaxYearSpan))

InitLoader ==
    /\ rules = Rules2025_new
    /\ computations = <<>>
    /\ reads = NoRead
    /\ status = "Single"
    /\ TaxIdle
    /\ DeductionIdle
    /\ year \in Years
    /\ loaded = <<>>
    /\ ValidationIdle
    /\ W2Idle
    /\ DependentIdle
    /\ TaxpayerIdle
    /\ FormIdle
    /\ MoneyIdle
    /\ CollectionIdle

\* loader.load(year)
Load ==
    /\ loaded = <<>>
    /\ loaded' = <<load(year)>>
    /\ UNCHANGED <<rules, status, taxVars, dedVars, year, valVars, w2Vars, returnVars,
                   computations, reads>>

NextLoader ==
    \/ Load
    \/ Read("is_supported", <<year>>, is_supported(year))
    \/ Read("supported_years", <<>>, supported_years)

SpecLoader == InitLoader /\ [][NextLoader]_vars

\* C8: load(2025) returns rules whose year() is 2025; load of any other year
\* fails with UnsupportedTaxYear carrying the requested year and the supported
\* bounds (2025, 2025), so the error names the requested year and the range.
C8_LoadOrUnsupportedYear ==
    loaded # <<>> =>
        LET res == loaded[1]
        IN  /\ (year = 2025 => res.ok /\ Rules2025_year(res.val[1]) = 2025)
            /\ (year # 2025 =>
                  /\ ~res.ok
                  /\ res.err[1] = [kind |-> "UnsupportedTaxYear",
                                   args |-> <<year, 2025, 2025>>]
                  /\ TaxError_display(res.err[1]) =
                       <<"tax year ", year, " is not supported (supported: ",
                         2025, "-", 2025, ")">>)

C8_Witness ==
    /\ year = 2020
    /\ loaded # <<>>
    /\ ~loaded[1].ok
    /\ loaded[1].err[1].args = <<2020, 2025, 2025>>

\* C28: load(year) succeeds iff is_supported(year) iff year is in the closed
\* interval supported_years() = MIN_SUPPORTED_YEAR..=MAX_SUPPORTED_YEAR, for
\* every year; the rules of a successful load(year) report year() = year.
C28_SupportViewsAgree ==
    /\ loaded # <<>> =>
          /\ loaded[1].ok <=> year \in MIN_SUPPORTED_YEAR..MAX_SUPPORTED_YEAR
          /\ loaded[1].ok => Rules2025_year(loaded[1].val[1]) = year
    /\ reads.op = "is_supported" =>
          /\ reads.out[1] <=> reads.arg[1] \in MIN_SUPPORTED_YEAR..MAX_SUPPORTED_YEAR
          /\ reads.out[1] <=> load(reads.arg[1]).ok
          /\ loaded # <<>> => (reads.out[1] <=> loaded[1].ok)
    /\ reads.op = "supported_years" =>
          /\ reads.out[1].start = MIN_SUPPORTED_YEAR
          /\ reads.out[1].end = MAX_SUPPORTED_YEAR
          /\ \A y \in Years :
                (reads.out[1].start <= y /\ y <= reads.out[1].end)
                    <=> (load(y).ok /\ is_supported(y))
          /\ loaded # <<>> =>
                (loaded[1].ok <=> reads.out[1].start <= year /\ year <= reads.out[1].end)

\* the supported year: loaded, and is_supported answers true
C28_Witness ==
    /\ year = MAX_SUPPORTED_YEAR
    /\ loaded # <<>>
    /\ loaded[1].ok
    /\ reads = [op |-> "is_supported", arg |-> <<2025>>, out |-> <<TRUE>>]

(***************************************************************************)
(* Validation accumulator: entries are added to one ValidationErrors,      *)
(* which into_result() then consumes.                                      *)
(***************************************************************************)

\* at most MaxErrors entries are added to one accumulator
MaxErrors == 3

Fields == {<<"employee_ssn">>, <<"box_1_wages">>}

Messages == {<<"Invalid SSN format (expected XXX-XX-XXXX)">>, <<"Wages cannot be negative">>}

InitValidation ==
    /\ rules = Rules2025_new
    /\ computations = <<>>
    /\ reads = NoRead
    /\ status = "Single"
    /\ TaxIdle
    /\ DeductionIdle
    /\ LoaderIdle
    /\ errors = ValidationErrors_new
    /\ error_adds = 0
    /\ converted = <<>>
    /\ W2Idle
    /\ DependentIdle
    /\ TaxpayerIdle
    /\ FormIdle
    /\ MoneyIdle
    /\ CollectionIdle

\* errors.add(error) with an entry of either severity
Add ==
    /\ converted = <<>>
    /\ Len(errors) < MaxErrors
    /\ \E f \in Fields, m \in Messages :
         \E e \in {ValidationError_error(f, m), ValidationError_warning(f, m)} :
            /\ errors' = ValidationErrors_add(errors, e)
            /\ error_adds' = error_adds + (IF e.severity = "Error" THEN 1 ELSE 0)
    /\ reads' = NoRead
    /\ UNCHANGED <<rules, status, taxVars, dedVars, loaderVars, converted, w2Vars, returnVars,
                   computations>>

\* errors.add_error(field, message)
AddError ==
    /\ converted = <<>>
    /\ Len(errors) < MaxErrors
    /\ \E f \in Fields, m \in Messages :
         /\ errors' = add_error(errors, f, m)
         /\ error_adds' = error_adds + 1
    /\ reads' = NoRead
    /\ UNCHANGED <<rules, status, taxVars, dedVars, loaderVars, converted, w2Vars, returnVars,
                   computations>>

\* errors.into_result(): the accumulator is moved into the call
IntoResult ==
    /\ converted = <<>>
    /\ converted' = <<into_result(errors)>>
    /\ reads' = NoRead
    /\ UNCHANGED <<rules, status, taxVars, dedVars, loaderVars, errors, error_adds, w2Vars, returnVars,
                   computations>>

\* the accessors taking &self, callable until into_result() has moved the
\* accumulator
NextValidation ==
    \/ Add
    \/ AddError
    \/ IntoResult
    \/ converted = <<>> /\ Read("has_errors", <<>>, has_errors(errors))
    \/ converted = <<>> /\ Read("has_warnings", <<>>, has_warnings(errors))
    \/ converted = <<>> /\ Read("is_empty", <<>>, ValidationErrors_is_empty(errors))
    \/ converted = <<>> /\ Read("errors", <<>>, ValidationErrors_errors(errors))
    \/ converted = <<>> /\ Read("warnings", <<>>, ValidationErrors_warnings(errors))
    \/ converted = <<>> /\ Read("all", <<>>, ValidationErrors_all(errors))

SpecValidation == InitValidation /\ [][NextValidation]_vars

\* C9: after any sequence of add / add_error, into_result() fails iff at least
\* one Error-severity entry was added; warnings only, or nothing, gives Ok.
C9_IntoResultFailsIffError ==
    converted # <<>> =>
        /\ (~converted[1].ok <=> error_adds >= 1)
        /\ (error_adds = 0 => converted[1] = Ok(Unit))

C9_Witness ==
    /\ converted # <<>>
    /\ converted[1].ok
    /\ Len(errors) = 2
    /\ \A i \in 1..Len(errors) : errors[i].severity = "Warning"

\* the entries an add or add_error call can append
AddedEntries ==
    {[field |-> f, message |-> m, severity |-> s] :
        f \in Fields, m \in Messages, s \in {"Error", "Warning"}}

\* the entries of one severity among those added, in the order added
OfSeverity(s) == SelectSeq(errors, LAMBDA e : e.severity = s)

\* C27: every add / add_error appends one entry and leaves the earlier ones
\* in place, and all() is that sequence; errors() and warnings() are its
\* Error and its Warning entries in order; is_empty() iff nothing was added;
\* has_errors() iff an Error entry was added and has_warnings() iff a Warning
\* entry was added, each whatever the other.
C27_AccumulatorKeepsInsertionOrder ==
    /\ [][errors' # errors => \E e \in AddedEntries : errors' = errors \o <<e>>]_vars
    /\ [](Len(OfSeverity("Error")) = error_adds)
    /\ [](reads.op = "all" => reads.out[1] = errors)
    /\ [](reads.op = "errors" => reads.out[1] = OfSeverity("Error"))
    /\ [](reads.op = "warnings" => reads.out[1] = OfSeverity("Warning"))
    /\ [](reads.op = "is_empty" => (reads.out[1] <=> errors = <<>>))
    /\ [](reads.op = "has_errors" => (reads.out[1] <=> error_adds >= 1))
    /\ [](reads.op = "has_warnings" => (reads.out[1] <=> Len(errors) - error_adds >= 1))

\* all() after a warning, an error and a warning were added in that order
C27_Witness ==
    /\ reads.op = "all"
    /\ Len(reads.out[1]) = 3
    /\ reads.out[1][1].severity = "Warning"
    /\ reads.out[1][2].severity = "Error"
    /\ reads.out[1][3].severity = "Warning"
    /\ reads.out[1][1].field # reads.out[1][3].field
    /\ error_adds = 1

(***************************************************************************)
(* W-2 validation: validate() is called on a W-2 as deserialized.          *)
(***************************************************************************)

\* a W-2 carries at most MaxBox12 Box 12 entries
MaxBox12 == 2

SsnInputs ==
    {<<>>,
     <<"1", "2", "3", "-", "4", "5", "-", "6", "7", "8", "9">>,
     <<"i", "n", "v", "a", "l", "i", "d">>,
     <<"1", "2", "3", "4", "5", "6", "7", "8", "9", "0", "1">>,
     <<"1", "2", "3", "-", "4", "5", "-", "6", "7", "é">>}

EinInputs ==
    {<<>>,
     <<"1", "2", "-", "3", "4", "5", "6", "7", "8", "9">>,
     <<"i", "n", "v", "a", "l", "i", "d">>,
     <<"1", "2", "-", "3", "4", "5", "6", "7", "é">>}

Box12Inputs ==
    UNION {[1..n -> {[code |-> c, amount |-> from_dollars(100)] : c \in {"D", "DD", "I"}}]
             : n \in 0..MaxBox12}

InitW2 ==
    /\ rules = Rules2025_new
    /\ computations = <<>>
    /\ reads = NoRead
    /\ status = "Single"
    /\ TaxIdle
    /\ DeductionIdle
    /\ LoaderIdle
    /\ ValidationIdle
    /\ DependentIdle
    /\ TaxpayerIdle
    /\ FormIdle
    /\ MoneyIdle
    /\ CollectionIdle
    /\ w2 \in [employee_ssn : SsnInputs,
               employer_ein : EinInputs,
               box_1_wages : {from_cents(0 - 1), ZERO, from_dollars(75000)},
               box_2_federal_tax_withheld : {from_dollars(0 - 10), from_dollars(10000)},
               box_3_social_security_wages : {from_cents(0 - 50), from_dollars(75000)},
               box_12 : Box12Inputs]
    /\ validated = <<>>

\* w2.validate()
Validate ==
    /\ validated = <<>>
    /\ validated' = <<validate(w2)>>
    /\ UNCHANGED <<rules, status, taxVars, dedVars, loaderVars, valVars, w2, returnVars,
                   computations, reads>>

NextW2 == Validate

SpecW2 == InitW2 /\ [][NextW2]_vars

\* an identifier in the form the digit groups give, e.g. 3-2-4 for an SSN
WellFormed(str, groups) ==
    LET n == SumSeq(groups) + Len(groups) - 1
        dashes == {SumSeq(SubSeq(groups, 1, g)) + g : g \in 1..(Len(groups) - 1)}
    IN  /\ Len(str) = n
        /\ \A k \in 1..n : IF k \in dashes THEN str[k] = "-" ELSE str[k] \in AsciiDigits

\* the messages of the checks a W-2 violates, in check order
ViolatedChecks(w) ==
    (IF w.employee_ssn # <<>> /\ ~WellFormed(w.employee_ssn, <<3, 2, 4>>)
     THEN << <<"Invalid SSN format (expected XXX-XX-XXXX)">> >> ELSE <<>>)
    \o (IF w.employer_ein # <<>> /\ ~WellFormed(w.employer_ein, <<2, 7>>)
        THEN << <<"Invalid EIN format (expected XX-XXXXXXX)">> >> ELSE <<>>)
    \o (IF Money_lt(w.box_1_wages, ZERO)
        THEN << <<"Wages cannot be negative">> >> ELSE <<>>)
    \o (IF Money_lt(w.box_2_federal_tax_withheld, ZERO)
        THEN << <<"Federal tax withheld cannot be negative">> >> ELSE <<>>)
    \o (IF Money_lt(w.box_3_social_security_wages, ZERO)
        THEN << <<"Social Security wages cannot be negative">> >> ELSE <<>>)
    \o SelectSeq([i \in 1..Len(w.box_12) |->
                     IF is_valid_box_12_code(w.box_12[i].code) THEN <<>>
                     ELSE <<"Invalid Box 12 code: ", w.box_12[i].code>>],
                 LAMBDA m : m # <<>>)

\* C10: validate evaluates every check and, when any fail, returns one failure
\* whose reason holds the message of every violated check, in check order,
\* joined by "; "; an invalid SSN format together with negative wages gives a
\* failure listing both.
C10_ValidateReportsEveryProblem ==
    validated # <<>> =>
        LET out == validated[1]
            violated == ViolatedChecks(w2)
        IN  /\ ~out.panicked
            /\ out.ret # <<>>
            /\ (violated = <<>> => out.ret[1] = Ok(Unit))
            /\ (violated # <<>> =>
                  out.ret[1] = Err(InvalidValue("multiple", join(violated))))

\* validate on a W-2 whose identifiers are ASCII: the accumulation itself
W2_AsciiValidateAccumulates ==
    (validated # <<>> /\ str_len(w2.employee_ssn) = Len(w2.employee_ssn)
                      /\ str_len(w2.employer_ein) = Len(w2.employer_ein)) =>
        LET out == validated[1]
            violated == ViolatedChecks(w2)
        IN  /\ ~out.panicked
            /\ (violated = <<>> => out.ret[1] = Ok(Unit))
            /\ (violated # <<>> =>
                  out.ret[1] = Err(InvalidValue("multiple", join(violated))))

(***************************************************************************)
(* Dependents: a credit computation asks a Dependent of the return whether *)
(* it qualifies for the Child Tax Credit or the Credit for Other           *)
(* Dependents.                                                             *)
(***************************************************************************)

\* sampled ages lie within MaxAgeDelta years of 17, months within as many of 6
MaxAgeDelta == 2

InitDependent ==
    /\ rules = Rules2025_new
    /\ computations = <<>>
    /\ reads = NoRead
    /\ status = "Single"
    /\ TaxIdle
    /\ DeductionIdle
    /\ LoaderIdle
    /\ ValidationIdle
    /\ W2Idle
    /\ dependent \in
         {Dependent(ssn, relationship, dep_age, months) :
             ssn \in {<<>>, <<"x">>,
                      <<"1", "2", "3", "-", "4", "5", "-", "6", "7", "8", "9">>},
             relationship \in DependentRelationship,
             dep_age \in {0, U8Max} \cup ((17 - MaxAgeDelta)..(17 + MaxAgeDelta)),
             months \in {0, 12} \cup ((6 - MaxAgeDelta)..(6 + MaxAgeDelta))}
    /\ eligibility = [ctc |-> <<>>, odc |-> <<>>]
    /\ TaxpayerIdle
    /\ FormIdle
    /\ MoneyIdle
    /\ CollectionIdle

\* dependent.qualifies_for_ctc()
QualifiesForCtc ==
    /\ eligibility.ctc = <<>>
    /\ eligibility' = [eligibility EXCEPT !.ctc = <<qualifies_for_ctc(dependent)>>]
    /\ UNCHANGED <<rules, status, taxVars, dedVars, loaderVars, valVars, w2Vars,
                   dependent, taxpayer, tax_year, age, form, calculated,
                   operands, computed, forms, totals,
                   computations, reads>>

\* dependent.qualifies_for_odc()
QualifiesForOdc ==
    /\ eligibility.odc = <<>>
    /\ eligibility' = [eligibility EXCEPT !.odc = <<qualifies_for_odc(dependent)>>]
    /\ UNCHANGED <<rules, status, taxVars, dedVars, loaderVars, valVars, w2Vars,
                   dependent, taxpayer, tax_year, age, form, calculated,
                   operands, computed, forms, totals,
                   computations, reads>>

NextDependent == QualifiesForCtc \/ QualifiesForOdc

SpecDependent == InitDependent /\ [][NextDependent]_vars

(***************************************************************************)
(* Claims about dependents (checked under SpecDependent)                   *)
(***************************************************************************)

\* the four conditions of the Child Tax Credit, the relationship given by
\* the relatives that are not qualifying children
CtcConditions ==
    /\ dependent.age < 17
    /\ dependent.months_lived_with_taxpayer >= 6
    /\ dependent.relationship \notin {"Parent", "Grandparent", "AuntUncle", "Other"}
    /\ Len(dependent.ssn) > 0

\* C11: a dependent qualifies for the Child Tax Credit iff it is under 17,
\* lived 6+ months with the taxpayer, is a qualifying child by relationship
\* and has a non-empty SSN; it qualifies for the Credit for Other Dependents
\* iff it does not qualify for the Child Tax Credit, so a 16-year-old
\* Daughter with 6+ months and an SSN gets CTC and the same at 17 gets ODC.
C11_CtcOrOdc ==
    /\ eligibility.ctc # <<>> => (eligibility.ctc[1] <=> CtcConditions)
    /\ eligibility.odc # <<>> => (eligibility.odc[1] <=> ~CtcConditions)
    /\ (eligibility.ctc # <<>> /\ eligibility.odc # <<>>) =>
            (eligibility.ctc[1] # eligibility.odc[1])
    /\ (/\ dependent.relationship = "Daughter"
        /\ dependent.months_lived_with_taxpayer >= 6
        /\ dependent.ssn # <<>>
        /\ eligibility.ctc # <<>>
        /\ eligibility.odc # <<>>) =>
            /\ dependent.age = 16 => (eligibility.ctc[1] /\ ~eligibility.odc[1])
            /\ dependent.age = 17 => (~eligibility.ctc[1] /\ eligibility.odc[1])

\* the 17-year-old Daughter with six months and an SSN was asked both
\* questions and got the Credit for Other Dependents
C11_Witness ==
    /\ dependent.relationship = "Daughter"
    /\ dependent.age = 17
    /\ dependent.months_lived_with_taxpayer = 6
    /\ dependent.ssn # <<>>
    /\ eligibility = [ctc |-> <<FALSE>>, odc |-> <<TRUE>>]

(***************************************************************************)
(* Taxpayer age: a return computation asks a TaxpayerInfo for its age at   *)
(* the end of the tax year and whether it is 65 or older.                  *)
(***************************************************************************)

\* sampled birth years lie within MaxBirthSpan years of the two years in
\* which a 65th birthday decides the answer
MaxBirthSpan == 1

\* birth years around MIN_SUPPORTED_YEAR - 65; and, the year being a u16 of
\* four digits, year 0, the years 65 and 0 years before the one 2^8 years
\* back, a year after the tax years, and year 9999
BirthYears ==
    ((MIN_SUPPORTED_YEAR - 65 - MaxBirthSpan)..(MIN_SUPPORTED_YEAR - 64 + MaxBirthSpan))
    \cup {0, MIN_SUPPORTED_YEAR - (U8Max + 1) - 65, MIN_SUPPORTED_YEAR - (U8Max + 1),
          MIN_SUPPORTED_YEAR + 2, 9999}

BirthMonths == {1, 6, 12, 13}

BirthDays == {1, 2, 31}

\* a date of birth in the YYYY-MM-DD format the field documents
FormatDate(y, m, d) ==
    LET two_digits(n) == <<DigitChars[(n \div 10) + 1], DigitChars[(n % 10) + 1]>>
    IN  two_digits(y \div 100) \o two_digits(y % 100) \o <<"-">>
        \o two_digits(m) \o <<"-">> \o two_digits(d)

\* strings that are not dates: empty, a year only, a non-digit inside the
\* year, a multi-byte character across byte 4
MalformedDates ==
    {<<>>,
     <<"1", "9", "6", "0">>,
     <<"1", "9", "é", "0", "-", "0", "1", "-", "0", "1">>,
     <<"1", "9", "6", "é", "-", "0", "1", "-", "0", "1">>}

\* a month written with a sign, which str::parse accepts
SignedMonthDates == {<<"1", "9", "6", "0", "-", "+", "1", "-", "0", "1">>}

InitTaxpayer ==
    /\ rules = Rules2025_new
    /\ computations = <<>>
    /\ reads = NoRead
    /\ status = "Single"
    /\ TaxIdle
    /\ DeductionIdle
    /\ LoaderIdle
    /\ ValidationIdle
    /\ W2Idle
    /\ DependentIdle
    /\ taxpayer \in {[date_of_birth |-> dob] :
                        dob \in MalformedDates \cup SignedMonthDates
                            \cup {FormatDate(y, m, d) :
                                     y \in BirthYears, m \in BirthMonths, d \in BirthDays}}
    /\ tax_year \in {MIN_SUPPORTED_YEAR, MIN_SUPPORTED_YEAR + 1}
    /\ age = [at_year_end |-> <<>>, is_65 |-> <<>>]
    /\ FormIdle
    /\ MoneyIdle
    /\ CollectionIdle

\* taxpayer.age_at_year_end(tax_year)
AgeAtYearEnd ==
    /\ age.at_year_end = <<>>
    /\ age' = [age EXCEPT !.at_year_end = <<age_at_year_end(taxpayer, tax_year)>>]
    /\ UNCHANGED <<rules, status, taxVars, dedVars, loaderVars, valVars, w2Vars,
                   dependent, eligibility, taxpayer, tax_year, form,
                   calculated, operands, computed, forms, totals,
                   computations, reads>>

\* taxpayer.is_65_or_older(tax_year)
Is65OrOlder ==
    /\ age.is_65 = <<>>
    /\ age' = [age EXCEPT !.is_65 = <<is_65_or_older(taxpayer, tax_year)>>]
    /\ UNCHANGED <<rules, status, taxVars, dedVars, loaderVars, valVars, w2Vars,
                   dependent, eligibility, taxpayer, tax_year, form,
                   calculated, operands, computed, forms, totals,
                   computations, reads>>

NextTaxpayer == AgeAtYearEnd \/ Is65OrOlder

SpecTaxpayer == InitTaxpayer /\ [][NextTaxpayer]_vars

(***************************************************************************)
(* Claims about the taxpayer's age (checked under SpecTaxpayer)            *)
(***************************************************************************)

\* the taxpayer was born on y-m-d, a date of the calendar
BornOn(y, m, d) ==
    m \in 1..12 /\ d \in 1..31 /\ taxpayer.date_of_birth = FormatDate(y, m, d)

\* C12: is_65_or_older(tax_year) follows the IRS convention: a taxpayer is
\* 65 or older for tax_year when the 65th birthday falls on or before
\* December 31 of tax_year, and also when it falls on January 1 of
\* tax_year + 1 (born January 1 of tax_year - 64).
C12_SixtyFiveDayBeforeBirthday ==
    \A y \in BirthYears, m \in BirthMonths, d \in BirthDays :
        (/\ BornOn(y, m, d)
         /\ age.is_65 # <<>>
         /\ (y + 65 <= tax_year \/ (y + 64 = tax_year /\ m = 1 /\ d = 1))) =>
            age.is_65[1]

\* what the code computes: the difference of the two years, cast to u8,
\* whatever the day of birth; None for a string that is no date or a month
\* above 12 (except on day 31 of month 12)
TaxpayerAge_IsYearDifference ==
    /\ \A y \in BirthYears, m \in BirthMonths, d \in BirthDays :
          (taxpayer.date_of_birth = FormatDate(y, m, d) /\ age.at_year_end # <<>>) =>
              age.at_year_end[1] =
                  IF m > 12 THEN NoneInt
                  ELSE SomeInt(Max0(tax_year - y) % (U8Max + 1))
    /\ (taxpayer.date_of_birth \in MalformedDates /\ age.at_year_end # <<>>) =>
          age.at_year_end[1] = NoneInt
    /\ (taxpayer.date_of_birth \in SignedMonthDates /\ age.at_year_end # <<>>) =>
          age.at_year_end[1] = SomeInt(tax_year - 1960)
    /\ (age.at_year_end # <<>> /\ age.is_65 # <<>>) =>
          (age.is_65[1] <=> (age.at_year_end[1].some /\ age.at_year_end[1].v >= 65))

\* C30: for a date of birth YYYY-MM-DD with month <= 12, age_at_year_end is
\* tax_year - birth_year, or 0 when the birth year is after the tax year,
\* whatever the two years, and is_65_or_older is true iff that difference is
\* >= 65; for a string that is no date or a month above 12 the age is absent
\* and is_65_or_older false.
C30_AgeIsYearDifference ==
    /\ \A y \in BirthYears, m \in BirthMonths, d \in BirthDays :
          taxpayer.date_of_birth = FormatDate(y, m, d) =>
              /\ age.at_year_end # <<>> =>
                    age.at_year_end[1] =
                        IF m > 12 THEN NoneInt ELSE SomeInt(Max0(tax_year - y))
              /\ age.is_65 # <<>> =>
                    (age.is_65[1] <=> (m <= 12 /\ tax_year - y >= 65))
    /\ taxpayer.date_of_birth \in MalformedDates =>
          /\ age.at_year_end # <<>> => age.at_year_end[1] = NoneInt
          /\ age.is_65 # <<>> => ~age.is_65[1]

(***************************************************************************)
(* Form 1040: the lines of a return are entered (every field is public)    *)
(* and its calculate_* methods are called, in any order.                   *)
(***************************************************************************)

\* at most MaxCalls calculate_* calls are made on one form
MaxCalls == 3

\* an entered form scales its line amounts by up to MaxScale, either sign
MaxScale == 1

\* a form with one line entered and all others zero
OneLineForms ==
    {[Form1040_new(MIN_SUPPORTED_YEAR) EXCEPT ![Form1040Lines[i]] = from_cents(12345)] :
        i \in 1..Len(Form1040Lines)}

\* a form with a different amount on every line: k times $1.01, $2.04, $3.09, ...
EveryLineForms ==
    {[field \in DOMAIN Form1040_new(MIN_SUPPORTED_YEAR) |->
         IF \E j \in 1..Len(Form1040Lines) : Form1040Lines[j] = field
         THEN LET i == CHOOSE j \in 1..Len(Form1040Lines) : Form1040Lines[j] = field
              IN  from_cents(k * (100 * i + i * i))
         ELSE Form1040_new(MIN_SUPPORTED_YEAR)[field]] :
        k \in ((0 - MaxScale)..MaxScale) \ {0}}

\* a form with x on the minuend lines 9, 11, 18 and 33, y on the subtrahend
\* lines 10, 14, 21 and 24, and z on lines 36 and 38
DifferenceForms ==
    LET amounts == {from_cents(0 - 5025), ZERO, from_dollars(100), from_cents(15050)}
    IN  {[Form1040_new(MIN_SUPPORTED_YEAR) EXCEPT
             !.line_9 = x, !.line_11 = x, !.line_18 = x, !.line_33 = x,
             !.line_10 = y, !.line_14 = y, !.line_21 = y, !.line_24 = y,
             !.line_36 = z, !.line_38 = z] :
            x \in amounts, y \in amounts,
            z \in {ZERO, from_dollars(10), from_dollars(100)}}

InitForm ==
    /\ rules = Rules2025_new
    /\ computations = <<>>
    /\ reads = NoRead
    /\ status = "Single"
    /\ TaxIdle
    /\ DeductionIdle
    /\ LoaderIdle
    /\ ValidationIdle
    /\ W2Idle
    /\ DependentIdle
    /\ TaxpayerIdle
    /\ form \in OneLineForms \cup EveryLineForms \cup DifferenceForms
    /\ calculated = [last |-> "", calls |-> 0]
    /\ MoneyIdle
    /\ CollectionIdle

\* one calculate_* call: the method's effect on the form
Calculate(after, method) ==
    /\ calculated.calls < MaxCalls
    /\ form' = after
    /\ calculated' = [last |-> method, calls |-> calculated.calls + 1]
    /\ reads' = NoRead
    /\ UNCHANGED <<rules, status, taxVars, dedVars, loaderVars, valVars, w2Vars,
                   dependent, eligibility, taxpayer, tax_year, age, operands,
                   computed, forms, totals, computations>>

NextForm ==
    \/ Calculate(calculate_line_1z(form), "calculate_line_1z")
    \/ Calculate(calculate_line_9(form), "calculate_line_9")
    \/ Calculate(calculate_line_11(form), "calculate_line_11")
    \/ Calculate(calculate_line_14(form), "calculate_line_14")
    \/ Calculate(calculate_line_15(form), "calculate_line_15")
    \/ Calculate(calculate_line_18(form), "calculate_line_18")
    \/ Calculate(calculate_line_21(form), "calculate_line_21")
    \/ Calculate(calculate_line_22(form), "calculate_line_22")
    \/ Calculate(calculate_line_24(form), "calculate_line_24")
    \/ Calculate(calculate_line_25d(form), "calculate_line_25d")
    \/ Calculate(calculate_line_32(form), "calculate_line_32")
    \/ Calculate(calculate_line_33(form), "calculate_line_33")
    \/ Calculate(calculate_refund_or_owed(form), "calculate_refund_or_owed")
    \/ Read("is_refund", <<>>, is_refund(form))
    \/ Read("net_result", <<>>, net_result(form))

SpecForm == InitForm /\ [][NextForm]_vars

(***************************************************************************)
(* Claims about Form 1040 (checked under SpecForm)                         *)
(* Entered amounts are whole cents; a claim's arithmetic is done on the    *)
(* integer cents of the lines.                                             *)
(***************************************************************************)

\* the amount on a line, in cents
LineCents(line) == form[line].whole * 100 + (form[line].frac \div 100)

\* a line holds exactly c cents
LineIs(line, c) == form[line] = [whole |-> c \div 100, frac |-> (c % 100) * 100]

RECURSIVE SumLines(_)
SumLines(lines) ==
    IF lines = <<>> THEN 0 ELSE LineCents(Head(lines)) + SumLines(Tail(lines))

\* C13: after calculate_line_15, line 15 is max(0, line 11 - line 14), and
\* after calculate_line_22, line 22 is max(0, line 18 - line 21); neither is
\* negative, whatever the lines read hold.
C13_TaxableIncomeAndTaxFloored ==
    /\ calculated.last = "calculate_line_15" =>
          /\ LineIs("line_15", Max0(LineCents("line_11") - LineCents("line_14")))
          /\ LineCents("line_15") >= 0
    /\ calculated.last = "calculate_line_22" =>
          /\ LineIs("line_22", Max0(LineCents("line_18") - LineCents("line_21")))
          /\ LineCents("line_22") >= 0

\* line 22 was calculated from credits above the tax and is zero
C13_Witness ==
    /\ calculated.last = "calculate_line_22"
    /\ LineCents("line_18") = 10000
    /\ LineCents("line_21") = 15050
    /\ form.line_22 = ZERO

\* C14: after calculate_line_11, line 11 is line 9 minus line 10 for all
\* values, negative when the adjustments exceed the total income.
C14_AgiNotFloored ==
    calculated.last = "calculate_line_11" =>
        LineIs("line_11", LineCents("line_9") - LineCents("line_10"))

\* what the code computes for line 11: the difference floored at zero
Form1040_AgiFloored ==
    calculated.last = "calculate_line_11" =>
        LineIs("line_11", Max0(LineCents("line_9") - LineCents("line_10")))

\* C15: calculate_refund_or_owed takes one of two branches: payments above
\* the tax give line 34 = 33 - 24, line 35a = 34 - 36 and line 37 = 0;
\* otherwise, also when they are equal, lines 34 and 35a are 0 and line 37
\* is (24 - 33) + 38.
C15_RefundOrOwed ==
    calculated.last = "calculate_refund_or_owed" =>
        IF LineCents("line_33") > LineCents("line_24")
        THEN /\ LineIs("line_34", LineCents("line_33") - LineCents("line_24"))
             /\ LineIs("line_35a", LineCents("line_34") - LineCents("line_36"))
             /\ LineIs("line_37", 0)
        ELSE /\ LineIs("line_34", 0)
             /\ LineIs("line_35a", 0)
             /\ LineIs("line_37",
                       (LineCents("line_24") - LineCents("line_33")) + LineCents("line_38"))

\* payments equal to the tax, with a penalty on line 38: the owed branch
C15_Witness ==
    /\ calculated.last = "calculate_refund_or_owed"
    /\ LineCents("line_33") = 15050
    /\ LineCents("line_24") = 15050
    /\ LineCents("line_38") = 1000
    /\ LineCents("line_37") = 1000
    /\ form.line_35a = ZERO

\* the components of each summed line
SummedLines ==
    [calculate_line_1z |->
        <<"line_1z", <<"line_1a", "line_1b", "line_1c", "line_1d", "line_1e",
                       "line_1f", "line_1g", "line_1h">>>>,
     calculate_line_9 |->
        <<"line_9", <<"line_1z", "line_2b", "line_3b", "line_4b", "line_5b",
                      "line_6b", "line_7", "line_8">>>>,
     calculate_line_14 |-> <<"line_14", <<"line_12", "line_13a", "line_13b">>>>,
     calculate_line_18 |-> <<"line_18", <<"line_16", "line_17">>>>,
     calculate_line_21 |-> <<"line_21", <<"line_19", "line_20">>>>,
     calculate_line_24 |-> <<"line_24", <<"line_22", "line_23">>>>,
     calculate_line_25d |-> <<"line_25d", <<"line_25a", "line_25b", "line_25c">>>>,
     calculate_line_32 |->
        <<"line_32", <<"line_27a", "line_28", "line_29", "line_30", "line_31">>>>,
     calculate_line_33 |-> <<"line_33", <<"line_25d", "line_26", "line_32">>>>]

\* C16: after its calculation each summed line is the exact sum of its
\* components: 1z of 1a..1h (not 1i), 9 of 1z, 2b, 3b, 4b, 5b, 6b, 7, 8
\* (not 2a..6a), 14 of 12, 13a, 13b, 18 of 16, 17, 21 of 19, 20, 24 of 22,
\* 23, 25d of 25a..25c, 32 of 27a, 28..31, 33 of 25d, 26, 32.
C16_SummedLinesExact ==
    \A method \in DOMAIN SummedLines :
        calculated.last = method =>
            LineIs(SummedLines[method][1], SumLines(SummedLines[method][2]))

\* line 1z was calculated on a form with an amount on every line, 1i too
C16_Witness ==
    /\ calculated.last = "calculate_line_1z"
    /\ LineCents("line_1i") = 981
    /\ LineCents("line_1z") = 3804
    /\ \A i \in 1..Len(Form1040Lines) : i # 10 => LineCents(Form1040Lines[i]) = 100 * i + i * i

\* the lines a calculate operation is named after
Targets(method) ==
    IF method = "calculate_refund_or_owed" THEN {"line_34", "line_35a", "line_37"}
    ELSE {Form1040Lines[i] : i \in {j \in 1..Len(Form1040Lines) :
                                        "calculate_" \o Form1040Lines[j] = method}}

\* the lines some calculate operation derives; every other field is entered
DerivedLines ==
    {"line_1z", "line_9", "line_11", "line_14", "line_15", "line_18", "line_21",
     "line_22", "line_24", "line_25d", "line_32", "line_33", "line_34",
     "line_35a", "line_37"}

\* C24: a calculate operation changes no field but its own target:
\* calculate_line_N line N, calculate_refund_or_owed lines 34, 35a and 37;
\* so no step changes an entered line, tax_year or the standard-deduction
\* checkbox.
C24_CalculateWritesOnlyTarget ==
    [][/\ \A field \in DOMAIN form :
             form'[field] # form[field] => field \in Targets(calculated'.last)
       /\ \A field \in DOMAIN form \ DerivedLines : form'[field] = form[field]]_vars

\* three calculations on a form with every line entered, line 18 among
\* them: the last wrote line 22 = 82.85 - 48.96, the entered lines 16 and 38
\* are as entered
C24_Witness ==
    /\ calculated = [last |-> "calculate_line_22", calls |-> 3]
    /\ LineCents("line_22") = 3389
    /\ LineCents("line_16") = 4061
    /\ LineCents("line_38") = 8736
    /\ form.tax_year = MIN_SUPPORTED_YEAR
    /\ form.line_12_standard_deduction

Form1040_RefundIsOverpaymentLessApplied ==
    (calculated.last = "calculate_refund_or_owed"
        /\ LineCents("line_33") > LineCents("line_24"))
        => /\ LineCents("line_34") > 0
           /\ LineCents("line_35a") = LineCents("line_34") - LineCents("line_36")

\* C26: after calculate_refund_or_owed the overpayment (34) and the amount
\* owed (37) are not both non-zero; is_refund() answers whether line 33 is
\* above line 24; net_result() is line 35a in that case and the negation of
\* line 37 otherwise.
C26_RefundXorOwed ==
    calculated.last = "calculate_refund_or_owed" =>
        /\ LineCents("line_34") = 0 \/ LineCents("line_37") = 0
        /\ reads.op = "is_refund" =>
              reads.out[1] = (LineCents("line_33") > LineCents("line_24"))
        /\ reads.op = "net_result" =>
              LET c == IF LineCents("line_33") > LineCents("line_24")
                       THEN LineCents("line_35a")
                       ELSE 0 - LineCents("line_37")
              IN  reads.out[1] = [whole |-> c \div 100, frac |-> (c % 100) * 100]

\* an overpayment of $100 wholly applied to next year: a refund of $0, and
\* is_refund() holds
C26_Witness ==
    /\ calculated.last = "calculate_refund_or_owed"
    /\ LineCents("line_33") = 10000
    /\ LineCents("line_24") = 0
    /\ LineCents("line_36") = 10000
    /\ reads = [op |-> "is_refund", arg |-> <<>>, out |-> <<TRUE>>]

(***************************************************************************)
(* Form 1040 derivation chain: a return computation calls the calculate    *)
(* methods in the dependency order of the lines, round after round, on a   *)
(* form whose fields hold any values, and reads lines for a report.        *)
(***************************************************************************)

\* the chain is run at most MaxRounds times on one form
MaxRounds == 2

InitChain ==
    /\ rules = Rules2025_new
    /\ computations = <<>>
    /\ reads = NoRead
    /\ status = "Single"
    /\ TaxIdle
    /\ DeductionIdle
    /\ LoaderIdle
    /\ ValidationIdle
    /\ W2Idle
    /\ DependentIdle
    /\ TaxpayerIdle
    /\ form \in EveryLineForms \cup {f \in DifferenceForms : f.line_36 = ZERO}
    /\ calculated = [last |-> "", calls |-> 0]
    /\ MoneyIdle
    /\ CollectionIdle

\* the calculate_* call at one position of the chain of 13
ChainStep(position, after, method) ==
    /\ calculated.calls < MaxRounds * 13
    /\ calculated.calls % 13 = position
    /\ form' = after
    /\ calculated' = [last |-> method, calls |-> calculated.calls + 1]
    /\ reads' = NoRead
    /\ UNCHANGED <<rules, status, taxVars, dedVars, loaderVars, valVars, w2Vars,
                   dependent, eligibility, taxpayer, tax_year, age, operands,
                   computed, forms, totals, computations>>

\* the identifiers asked of line(): those of the 56 lines, in the order of
\* the struct, and five that are no line
LookupIds ==
    {"1a", "1b", "1c", "1d", "1e", "1f", "1g", "1h", "1i", "1z", "2a", "2b",
     "3a", "3b", "4a", "4b", "5a", "5b", "6a", "6b", "7", "8", "9", "10", "11",
     "12", "13a", "13b", "14", "15", "16", "17", "18", "19", "20", "21", "22",
     "23", "24", "25a", "25b", "25c", "25d", "26", "27a", "28", "29", "30",
     "31", "32", "33", "34", "35a", "36", "37", "38"}
    \cup {"", "1A", "line_9", "35", "39"}

NextChain ==
    \/ ChainStep(0, calculate_line_1z(form), "calculate_line_1z")
    \/ ChainStep(1, calculate_line_9(form), "calculate_line_9")
    \/ ChainStep(2, calculate_line_11(form), "calculate_line_11")
    \/ ChainStep(3, calculate_line_14(form), "calculate_line_14")
    \/ ChainStep(4, calculate_line_15(form), "calculate_line_15")
    \/ ChainStep(5, calculate_line_18(form), "calculate_line_18")
    \/ ChainStep(6, calculate_line_21(form), "calculate_line_21")
    \/ ChainStep(7, calculate_line_22(form), "calculate_line_22")
    \/ ChainStep(8, calculate_line_24(form), "calculate_line_24")
    \/ ChainStep(9, calculate_line_25d(form), "calculate_line_25d")
    \/ ChainStep(10, calculate_line_32(form), "calculate_line_32")
    \/ ChainStep(11, calculate_line_33(form), "calculate_line_33")
    \/ ChainStep(12, calculate_refund_or_owed(form), "calculate_refund_or_owed")
    \/ \E line_id \in LookupIds : Read("line", <<line_id>>, Form1040_line(form, line_id))
    \/ Read("lines", <<>>, Form1040_lines(form))

SpecChain == InitChain /\ [][NextChain]_vars

(***************************************************************************)
(* Claims about the derivation chain and the line contract (SpecChain)     *)
(***************************************************************************)

\* the 13 calculations applied in the order of the chain
RunChain(f) ==
    calculate_refund_or_owed(calculate_line_33(calculate_line_32(
    calculate_line_25d(calculate_line_24(calculate_line_22(calculate_line_21(
    calculate_line_18(calculate_line_15(calculate_line_14(calculate_line_11(
    calculate_line_9(calculate_line_1z(f)))))))))))))

\* a form with the entered fields of f and nothing on the derived lines
EnteredOnly(f) ==
    [field \in DOMAIN f |-> IF field \in DerivedLines THEN ZERO ELSE f[field]]

\* C23: once the chain has run in its order, whatever the derived lines held
\* before, the form is the one the chain gives from the entered lines alone;
\* and no call of a further round changes a line.
C23_ChainDependsOnEnteredAndIdempotent ==
    /\ [](calculated.calls >= 13 /\ calculated.calls % 13 = 0
            => form = RunChain(EnteredOnly(form)))
    /\ [][calculated.calls >= 13 => form' = form]_vars

\* two rounds on a form whose every line, derived ones included, was
\* entered: line 24 is now 22 + 23 and not the 99.21 entered
C23_Witness ==
    /\ calculated = [last |-> "calculate_refund_or_owed", calls |-> 2 * 13]
    /\ LineCents("line_1a") = 101
    /\ LineCents("line_23") = 5244
    /\ LineCents("line_24") = LineCents("line_22") + 5244
    /\ LineCents("line_24") # 5421

\* C21: line(id) answers with the currency value of the line for each of the
\* 56 line identifiers of the form and with None for any other identifier;
\* for every entry of lines(), line(entry.line_id) is exactly entry.value;
\* in every state of the form.
C21_LineContract ==
    /\ reads.op = "line" =>
          LET field == "line_" \o reads.arg[1]
          IN  IF \E i \in 1..Len(Form1040Lines) : Form1040Lines[i] = field
              THEN reads.out[1] = <<[Currency |-> form[field]]>>
              ELSE reads.out[1] = <<>>
    /\ reads.op = "lines" =>
          /\ reads.out[1] # <<>>
          /\ \A i \in 1..Len(reads.out[1]) :
                Form1040_line(form, reads.out[1][i].line_id) = <<reads.out[1][i].value>>

\* line("24") read in the middle of the second round
C21_Witness ==
    /\ calculated.calls = 13 + 9
    /\ reads.op = "line"
    /\ reads.arg = <<"24">>
    /\ reads.out[1] = <<[Currency |-> form.line_24]>>
    /\ LineCents("line_24") > 0

(***************************************************************************)
(* Shared rules: return computations running at the same time call one     *)
(* rules object; their steps interleave in any order.                      *)
(***************************************************************************)

\* at most MaxComputations computations share the rules object
MaxComputations == 2

\* a call about to start, with the local variables it declares
Computation(call, s, f, amount) ==
    [call |-> call, status |-> s, flags |-> f, amount |-> amount, pc |-> "running",
     locals |-> CASE call = "calculate_tax" ->
                       [i |-> 1, acc |-> [total_tax |-> ZERO, prev_max |-> ZERO]]
                  [] call = "standard_deduction" -> [deduction |-> <<>>]
                  [] OTHER -> <<>>,
     out |-> <<>>]

\* the calls made: bracket tax inside the third and in the last bracket,
\* the standard deduction of seniors below and inside the phase-out of the
\* bonus, and the two parameter reads
SharedCalls ==
    LET none == [taxpayer_65_or_older |-> FALSE, taxpayer_blind |-> FALSE,
                 spouse_65_or_older |-> FALSE, spouse_blind |-> FALSE]
        seniors == [none EXCEPT !.taxpayer_65_or_older = TRUE,
                                !.spouse_65_or_older = TRUE]
    IN  {Computation("calculate_tax", s, none, a) :
            s \in {"Single", "MarriedFilingJointly"},
            a \in {from_dollars(50000), from_cents(70000099)}}
        \cup {Computation("standard_deduction", s, seniors, a) :
                s \in {"Single", "MarriedFilingJointly"},
                a \in {from_dollars(50000), from_dollars(200000)}}
        \cup {Computation("year", "Single", none, ZERO),
              Computation("brackets", "Single", none, ZERO)}

InitShared ==
    /\ rules = Rules2025_new
    /\ computations \in UNION {[1..n -> SharedCalls] : n \in 1..MaxComputations}
    /\ reads = NoRead
    /\ status = "Single"
    /\ TaxIdle
    /\ DeductionIdle
    /\ LoaderIdle
    /\ ValidationIdle
    /\ W2Idle
    /\ DependentIdle
    /\ TaxpayerIdle
    /\ FormIdle
    /\ MoneyIdle
    /\ CollectionIdle

\* one computation takes its next step on the shared rules
Step ==
    \E c \in 1..Len(computations) :
        /\ computations[c].pc = "running"
        /\ LET after == computation_step(rules, computations[c])
           IN  /\ rules' = after.rules
               /\ computations' = [computations EXCEPT ![c] = after.computation]
        /\ UNCHANGED <<status, taxVars, dedVars, loaderVars, valVars, w2Vars,
                       returnVars, reads>>

NextShared == Step

SpecShared == InitShared /\ [][NextShared]_vars

\* the result of the call made alone on rules as constructed
Alone(comp) ==
    CASE comp.call = "calculate_tax" ->
           calculate_tax(Rules2025_new, comp.status, comp.amount)
      [] comp.call = "standard_deduction" ->
           standard_deduction(Rules2025_new, comp.status, comp.flags, comp.amount)
      [] comp.call = "year" -> Rules2025_year(Rules2025_new)
      [] comp.call = "brackets" -> brackets(Rules2025_new, comp.status)

\* C22: whatever the interleaving of the steps of the computations sharing
\* the rules object, the rules' bracket tables and constants stay as
\* constructed, and every call that has returned returned what the same call
\* returns when made alone.
C22_SharedRulesReadOnly ==
    /\ rules = Rules2025_new
    /\ \A c \in 1..Len(computations) :
          computations[c].pc = "done" => computations[c].out = <<Alone(computations[c])>>

\* a standard deduction in the phase-out has returned while a bracket-tax
\* call on the same rules is in the middle of its loop
C22_Witness ==
    /\ Len(computations) = 2
    /\ computations[1].call = "calculate_tax"
    /\ computations[1].pc = "running"
    /\ computations[1].locals.i = 4
    /\ computations[1].amount = from_cents(70000099)
    /\ computations[2].call = "standard_deduction"
    /\ computations[2].status = "MarriedFilingJointly"
    /\ computations[2].amount = from_dollars(200000)
    /\ computations[2].out = <<from_dollars(31500 + 2 * 1600 + 2 * 6000 - 3000)>>

(***************************************************************************)
(* Currency: an amount is constructed from cents or dollars and the        *)
(* operations of UsdAmount are applied to it in turn.                      *)
(***************************************************************************)

\* at most MaxOps operations, the constructor included, are applied
MaxOps == 3

Last(seq) == seq[Len(seq)]

InitMoney ==
    /\ rules = Rules2025_new
    /\ computations = <<>>
    /\ reads = NoRead
    /\ status = "Single"
    /\ TaxIdle
    /\ DeductionIdle
    /\ LoaderIdle
    /\ ValidationIdle
    /\ W2Idle
    /\ DependentIdle
    /\ TaxpayerIdle
    /\ FormIdle
    /\ operands \in [a : {0 - 12351, 0 - 12350, 0 - 12349, 0 - 1, 0, 12349, 12350, 12351},
                      b : {0 - 12350, 0, 50, 12350},
                      rate : {6, 37},
                      dollars : {0 - 124, 100}]
    /\ computed = [ops |-> <<>>, values |-> <<>>, outs |-> <<>>]
    /\ CollectionIdle

\* one more operation: its name, the amount it leaves and what it returned
Record(op, value, out) ==
    /\ Len(computed.ops) < MaxOps
    /\ computed' = [ops |-> Append(computed.ops, op),
                    values |-> Append(computed.values, value),
                    outs |-> Append(computed.outs, out)]
    /\ UNCHANGED <<rules, status, taxVars, dedVars, loaderVars, valVars, w2Vars,
                   dependent, eligibility, taxpayer, tax_year, age, form,
                   calculated, operands, forms, totals,
                   computations, reads>>

\* an operation on the amount constructed before
Operate(op, value, out) == computed.values # <<>> /\ Record(op, value, out)

\* one disjunct per operation of UsdAmount, on the operands drawn at the
\* start: the two constructors first, every other operation on the amount
\* the operation before it left
NextMoney ==
    \/ computed.values = <<>> /\ Record("from_cents", from_cents(operands.a), <<>>)
    \/ computed.values = <<>>
          /\ Record("from_dollars", from_dollars(operands.dollars), <<>>)
    \/ Operate("as_cents", Last(computed.values),
               <<as_cents(Last(computed.values))>>)
    \/ Operate("add", Money_add(Last(computed.values), from_cents(operands.b)), <<>>)
    \/ Operate("sub", Money_sub(Last(computed.values), from_cents(operands.b)), <<>>)
    \* multiply_rate is applied to amounts in whole cents
    \/ computed.values # <<>> /\ Last(computed.values).frac % 100 = 0
          /\ Operate("multiply_rate",
                     multiply_rate(Last(computed.values), operands.rate), <<>>)
    \/ Operate("saturating_sub",
               saturating_sub(Last(computed.values), from_cents(operands.b)), <<>>)
    \/ Operate("round_to_dollar", round_to_dollar(Last(computed.values)), <<>>)
    \/ Operate("round_to_cents", round_to_cents(Last(computed.values)), <<>>)
    \/ Operate("trunc_to_dollar", trunc_to_dollar(Last(computed.values)), <<>>)
    \* [value, from_cents(b), value].into_iter().sum()
    \/ Operate("sum",
               Money_sum(<<Last(computed.values), from_cents(operands.b),
                           Last(computed.values)>>), <<>>)

SpecMoney == InitMoney /\ [][NextMoney]_vars

(***************************************************************************)
(* Claims about the currency type (checked under SpecMoney)                *)
(* A claim's arithmetic is done on integers: an amount in ten-thousandths  *)
(* of a dollar, operands.a and operands.b in cents.                        *)
(***************************************************************************)

\* an amount in ten-thousandths of a dollar
Units(m) == m.whole * FracScale + m.frac

\* the amount before and after the i-th operation
Before(i) == computed.values[i - 1]

After(i) == computed.values[i]

\* the positions at which op was applied to an amount
Applied(op) == {i \in 2..Len(computed.ops) : computed.ops[i] = op}

\* C17: saturating_sub(a, b) is never negative; it is a - b when a >= b and
\* zero otherwise, for all amounts, negative ones included.
C17_SaturatingSubFloors ==
    \A i \in Applied("saturating_sub") :
        /\ Units(After(i)) >= 0
        /\ Units(After(i)) =
              IF Units(Before(i)) >= operands.b * 100
              THEN Units(Before(i)) - operands.b * 100
              ELSE 0

\* -$0.01 minus -$123.50: both negative, the difference $123.49 is kept
C17_Witness ==
    /\ computed.ops = <<"from_cents", "saturating_sub">>
    /\ operands.a = 0 - 1
    /\ operands.b = 0 - 12350
    /\ computed.values[2] = [whole |-> 123, frac |-> 4900]

\* c cents to the nearest dollar, a half away from zero, on the magnitude
RoundedDollars(c) ==
    LET magnitude == IF c < 0 THEN 0 - c ELSE c
        dollars == (magnitude \div 100) + (IF magnitude % 100 >= 50 THEN 1 ELSE 0)
    IN  IF c < 0 THEN 0 - dollars ELSE dollars

\* C18: round_to_dollar takes an amount in whole cents to the nearest whole
\* dollar, a fraction of 50 cents or more away from zero and a smaller one
\* toward zero ($123.49 -> $123, $123.50 -> $124, $123.51 -> $124,
\* -$123.50 -> -$124); the result is a whole-dollar amount and rounding it
\* again changes nothing.
C18_RoundHalfAwayFromZero ==
    \A i \in Applied("round_to_dollar") :
        /\ Before(i).frac % 100 = 0 =>
              LET c == Units(Before(i)) \div 100
              IN  /\ After(i) = [whole |-> RoundedDollars(c), frac |-> 0]
                  /\ c = 12349 => After(i) = [whole |-> 123, frac |-> 0]
                  /\ c = 12350 => After(i) = [whole |-> 124, frac |-> 0]
                  /\ c = 12351 => After(i) = [whole |-> 124, frac |-> 0]
                  /\ c = 0 - 12350 => After(i) = [whole |-> 0 - 124, frac |-> 0]
        /\ computed.ops[i - 1] = "round_to_dollar" => After(i) = Before(i)

\* -$123.50 was rounded to -$124 and rounded again
C18_Witness ==
    /\ computed.ops = <<"from_cents", "round_to_dollar", "round_to_dollar">>
    /\ operands.a = 0 - 12350
    /\ computed.values[2] = [whole |-> 0 - 124, frac |-> 0]
    /\ computed.values[3] = [whole |-> 0 - 124, frac |-> 0]

\* C19: the constructors and +, -, multiply_rate and sum are exact on cent
\* amounts and two-decimal rates: each result is the mathematical one,
\* (a + b) - b is a, a sum is the total of its terms,
\* from_cents(c).as_cents() is c and from_dollars(d) is from_cents(100 d).
C19_ArithmeticExact ==
    /\ \A i \in 1..Len(computed.ops) :
          /\ After(i).frac \in 0..(FracScale - 1)
          /\ computed.ops[i] = "from_cents" => Units(After(i)) = operands.a * 100
          /\ computed.ops[i] = "from_dollars" =>
                /\ Units(After(i)) = operands.dollars * FracScale
                /\ After(i) = from_cents(100 * operands.dollars)
    /\ \A i \in Applied("add") : Units(After(i)) = Units(Before(i)) + operands.b * 100
    /\ \A i \in Applied("sub") :
          /\ Units(After(i)) = Units(Before(i)) - operands.b * 100
          /\ (i > 2 /\ computed.ops[i - 1] = "add") => After(i) = computed.values[i - 2]
    /\ \A i \in Applied("multiply_rate") :
          Units(After(i)) = (Units(Before(i)) \div 100) * operands.rate
    /\ \A i \in Applied("sum") :
          Units(After(i)) = Units(Before(i)) + operands.b * 100 + Units(Before(i))
    /\ \A i \in Applied("as_cents") :
          /\ After(i) = Before(i)
          /\ computed.ops[i - 1] = "from_cents" => computed.outs[i] = <<operands.a>>
          /\ computed.ops[i - 1] = "from_dollars" =>
                computed.outs[i] = <<100 * operands.dollars>>

\* $123.51 times 0.37 is $45.6987, and $123.50 less than that is negative
C19_Witness ==
    /\ computed.ops = <<"from_cents", "multiply_rate", "sub">>
    /\ operands.a = 12351
    /\ operands.rate = 37
    /\ operands.b = 12350
    /\ computed.values[2] = [whole |-> 45, frac |-> 6987]
    /\ computed.values[3] = [whole |-> 0 - 78, frac |-> 1987]

(***************************************************************************)
(* Input forms: the forms a taxpayer received are collected in a Vec and   *)
(* the aggregates of InputFormCollection are asked of it, in any order.    *)
(***************************************************************************)

\* a collection holds at most MaxForms forms
MaxForms == 3

\* two W-2s, one with two states; a W-2 whose state taxes cancel; an
\* interest form; a dividend form with withholding; a form that overrides
\* no method
SampleForms ==
    {W2Form(from_cents(5000025), from_dollars(5000), <<>>),
     W2Form(from_dollars(30000), from_cents(300050),
            <<from_dollars(1200), from_cents(30075)>>),
     W2Form(from_cents(0 - 150), ZERO, <<from_dollars(100), from_dollars(0 - 100)>>),
     OtherForm([taxable_interest |-> from_cents(12010)]),
     OtherForm([ordinary_dividends |-> from_dollars(800),
                qualified_dividends |-> from_cents(60040),
                federal_withholding |-> from_dollars(80)]),
     OtherForm(<<>>)}

InitCollection ==
    /\ rules = Rules2025_new
    /\ computations = <<>>
    /\ reads = NoRead
    /\ status = "Single"
    /\ TaxIdle
    /\ DeductionIdle
    /\ LoaderIdle
    /\ ValidationIdle
    /\ W2Idle
    /\ DependentIdle
    /\ TaxpayerIdle
    /\ FormIdle
    /\ MoneyIdle
    /\ forms \in UNION {[1..n -> SampleForms] : n \in 0..MaxForms}
    /\ totals = [m \in InputFormMethods |-> None]

\* one aggregate asked of the collection
Total(method, total) ==
    /\ ~totals[method].some
    /\ totals' = [totals EXCEPT ![method] = Some(total)]
    /\ UNCHANGED <<rules, status, taxVars, dedVars, loaderVars, valVars, w2Vars,
                   dependent, eligibility, taxpayer, tax_year, age, form,
                   calculated, operands, computed, forms,
                   computations, reads>>

NextCollection ==
    \/ Total("wages", total_wages(forms))
    \/ Total("taxable_interest", total_taxable_interest(forms))
    \/ Total("ordinary_dividends", total_ordinary_dividends(forms))
    \/ Total("qualified_dividends", total_qualified_dividends(forms))
    \/ Total("federal_withholding", total_federal_withholding(forms))
    \/ Total("state_withholding", total_state_withholding(forms))

SpecCollection == InitCollection /\ [][NextCollection]_vars

(***************************************************************************)
(* Claims about the aggregates (checked under SpecCollection)              *)
(***************************************************************************)

\* what a form contributes to an aggregate, in cents: the value its method
\* returns, nothing where it returns None
ContributionCents(f, method) ==
    LET returned == InputForm_call(f, method)
    IN  IF returned.some THEN returned.v.whole * 100 + (returned.v.frac \div 100) ELSE 0

\* the contributions of the forms at the positions in S, in no order
RECURSIVE TotalCents(_, _, _)
TotalCents(fs, S, method) ==
    IF S = {} THEN 0
    ELSE LET i == CHOOSE j \in S : TRUE
         IN  ContributionCents(fs[i], method) + TotalCents(fs, S \ {i}, method)

\* fs with the forms at positions i and i + 1 exchanged
Exchanged(fs, i) ==
    [j \in 1..Len(fs) |-> IF j = i THEN fs[i + 1] ELSE IF j = i + 1 THEN fs[i] ELSE fs[j]]

\* the aggregate named method, of any collection
TotalOf(fs, method) ==
    CASE method = "wages" -> total_wages(fs)
      [] method = "taxable_interest" -> total_taxable_interest(fs)
      [] method = "ordinary_dividends" -> total_ordinary_dividends(fs)
      [] method = "qualified_dividends" -> total_qualified_dividends(fs)
      [] method = "federal_withholding" -> total_federal_withholding(fs)
      [] method = "state_withholding" -> total_state_withholding(fs)

\* C20: each aggregate is the sum of the values of the forms that return
\* one, a form that returns None adding nothing; it is zero for an empty
\* collection and the same for the forms in any other order (every order
\* is reached by exchanging neighbours).
C20_AggregatesSumPresentValues ==
    \A method \in InputFormMethods :
        totals[method].some =>
            /\ totals[method].v = from_cents(TotalCents(forms, 1..Len(forms), method))
            /\ forms = <<>> => totals[method].v = ZERO
            /\ \A i \in 1..(Len(forms) - 1) :
                  TotalOf(Exchanged(forms, i), method) = totals[method].v

\* an interest form ahead of two W-2s: the wages of both are summed, the
\* interest of the one form, the state tax of the one W-2 that has any
C20_Witness ==
    /\ Len(forms) = 3
    /\ forms[1] = OtherForm([taxable_interest |-> from_cents(12010)])
    /\ forms[2].kind = "W2"
    /\ forms[3].kind = "W2"
    /\ forms[2].state_info = <<>>
    /\ Len(forms[3].state_info) = 2
    /\ totals.wages = Some(from_cents(8000025))
    /\ totals.taxable_interest = Some(from_cents(12010))
    /\ totals.state_withholding = Some(from_cents(150075))
    /\ totals.ordinary_dividends = Some(ZERO)

====
